---- MODULE Spec2Model ----
(***************************************************************************)
(* State-machine model of the file-converter package: FileHandler,         *)
(* ErrorHandler, the five converters and the GUI's ConversionWorker.       *)
(*                                                                         *)
(* A Python str (a path, a format name, a message) is a sequence of        *)
(* tokens; "/" and "." are tokens of their own, so that os.path and the    *)
(* f-strings of the source are computed on the text and not assumed.       *)
(***************************************************************************)
EXTENDS Integers, Sequences, FiniteSets, TLC

VARIABLES
    fs,        \* the file system: [files, dirs, bad], the paths of the regular files, of the
               \* directories, and of the files whose content no library can read
    weasy,     \* html_to_pdf.WEASYPRINT_AVAILABLE
    call,      \* the last public call: operation, arguments, file system before, effects, result
    ncalls,    \* number of public calls made so far
    prefs,     \* the preference files: [text, saved], the content of the files written by
               \* save_user_preferences and, per path, the last dictionary handed to it
    window,    \* the main window: "none" before MainWindow(), then "open"
    tabs,      \* the converter tabs setup_ui created, by name
    workers,   \* the ConversionWorkers started so far, in order of their start
    nevents    \* number of user events handled so far

apiVars == <<call, ncalls, prefs>>
guiVars == <<window, tabs, workers, nevents>>
vars == <<fs, weasy, call, ncalls, prefs, window, tabs, workers, nevents>>

(***************************************************************************)
(* Bounds of the model.                                                    *)
(***************************************************************************)
MaxCalls == 1
MaxBatch == 2
MaxWorkers == 2
MaxEvents == 4

(***************************************************************************)
(* str helpers                                                             *)
(***************************************************************************)
SEP == "/"
DOT == "."

\* str.rfind on one token: the last index holding t, 0 when there is none
RFind(s, t) ==
    LET I == {i \in 1..Len(s) : s[i] = t}
    IN IF I = {} THEN 0 ELSE CHOOSE i \in I : \A j \in I : j <= i

\* str.rstrip(t)
RStrip(s, t) ==
    LET I == {i \in 1..Len(s) : s[i] # t}
    IN IF I = {} THEN <<>> ELSE SubSeq(s, 1, CHOOSE i \in I : \A j \in I : j <= i)

\* str.lstrip(t)
LStrip(s, t) ==
    LET I == {i \in 1..Len(s) : s[i] # t}
    IN IF I = {} THEN <<>> ELSE SubSeq(s, CHOOSE i \in I : \A j \in I : i <= j, Len(s))

\* str.lower on one token
LowerTok(t) ==
    CASE t = "PNG" -> "png"
      [] t = "JPG" -> "jpg"
      [] t = "MD" -> "md"
      [] t = "HTML" -> "html"
      [] t = "PDF" -> "pdf"
      [] OTHER -> t

\* str.lower
Lower(s) == [i \in 1..Len(s) |-> LowerTok(s[i])]

\* s[1:]
Drop1(s) == IF s = <<>> THEN <<>> ELSE Tail(s)

(***************************************************************************)
(* os.path (posixpath)                                                     *)
(***************************************************************************)
Basename(p) == SubSeq(p, RFind(p, SEP) + 1, Len(p))

Dirname(p) ==
    LET head == SubSeq(p, 1, RFind(p, SEP))
    IN IF head # <<>> /\ (\E k \in 1..Len(head) : head[k] # SEP)
       THEN RStrip(head, SEP)
       ELSE head

\* os.path.splitext: <<root, ext>>; leading dots of the file name are no extension
Splitext(p) ==
    LET sepIndex == RFind(p, SEP)
        dotIndex == RFind(p, DOT)
    IN IF dotIndex > sepIndex /\ (\E k \in (sepIndex + 1)..(dotIndex - 1) : p[k] # DOT)
       THEN <<SubSeq(p, 1, dotIndex - 1), SubSeq(p, dotIndex, Len(p))>>
       ELSE <<p, <<>>>>

\* os.path.join(a, b)
Join(a, b) ==
    IF b # <<>> /\ b[1] = SEP THEN b
    ELSE IF a = <<>> \/ a[Len(a)] = SEP THEN a \o b
    ELSE a \o <<SEP>> \o b

\* f"{stem}.{ext}"
DotName(stem, ext) == stem \o <<DOT>> \o ext

(***************************************************************************)
(* The file system                                                         *)
(***************************************************************************)
Exists(f, p) == p \in f.files \/ p \in f.dirs
IsFile(f, p) == p \in f.files
IsDir(f, p) == p \in f.dirs

\* the proper ancestors of p: its prefixes that end before a separator
Ancestors(p) == {SubSeq(p, 1, i - 1) : i \in {j \in 2..Len(p) : p[j] = SEP}}

\* os.makedirs(p, exist_ok=True): the exception it raises ("" for none) ...
MakedirsExc(f, p) ==
    IF p = <<>> THEN "FileNotFoundError"
    ELSE IF IsDir(f, p) THEN ""
    ELSE IF IsFile(f, p) THEN "FileExistsError"
    ELSE IF \E a \in Ancestors(p) : IsFile(f, a) THEN "NotADirectoryError"
    ELSE ""

\* ... and the file system it leaves
MakedirsFs(f, p) ==
    IF MakedirsExc(f, p) = ""
    THEN [f EXCEPT !.dirs = @ \cup {p} \cup Ancestors(p)]
    ELSE f

\* open(p, 'w') and the libraries' save calls: the exception raised ("" for none)
WriteExc(f, p) ==
    IF p = <<>> THEN "FileNotFoundError"
    ELSE IF IsDir(f, p) THEN "IsADirectoryError"
    ELSE IF Dirname(p) # <<>> /\ IsFile(f, Dirname(p)) THEN "NotADirectoryError"
    ELSE IF Dirname(p) # <<>> /\ ~IsDir(f, Dirname(p)) THEN "FileNotFoundError"
    ELSE ""

\* a file written by a converter has readable content
WriteFs(f, p) ==
    IF WriteExc(f, p) = "" THEN [f EXCEPT !.files = @ \cup {p}, !.bad = @ \ {p}] ELSE f

\* os.unlink
UnlinkFs(f, p) == [f EXCEPT !.files = @ \ {p}, !.bad = @ \ {p}]

(***************************************************************************)
(* Python values returned by the public operations                         *)
(***************************************************************************)
NoneVal == [t |-> "none", s |-> <<>>, ok |-> FALSE, items |-> <<>>]
StrVal(s) == [t |-> "str", s |-> s, ok |-> FALSE, items |-> <<>>]
\* the pair (ok, v)
TupleVal(ok, v) == [t |-> "tuple", s |-> <<>>, ok |-> ok, items |-> <<v>>]
ListVal(items) == [t |-> "list", s |-> <<>>, ok |-> FALSE, items |-> items]

IsStr(v) == v.t = "str"
IsTuple(v) == v.t = "tuple"
Payload(v) == v.items[1]

\* bool(v)
Truthy(v) ==
    CASE v.t = "none" -> FALSE
      [] v.t = "str" -> v.s # <<>>
      [] v.t = "tuple" -> TRUE
      [] v.t = "list" -> v.items # <<>>

(***************************************************************************)
(* The world a call runs in, and the outcome of a function body            *)
(***************************************************************************)
Ev(kind, p) == [ev |-> kind, p |-> p, n |-> <<>>]
Log(w, kind, p) == [w EXCEPT !.log = Append(@, Ev(kind, p))]
\* an effect that carries numbers (a quality, a size)
LogN(w, kind, p, n) == [w EXCEPT !.log = Append(@, [ev |-> kind, p |-> p, n |-> n])]

\* a normal return of value v / an exception of type exc whose str() is detail
Ret(w, v) == [w |-> w, exc |-> "", detail |-> <<>>, val |-> v]
Raise(w, exc, detail) == [w |-> w, exc |-> exc, detail |-> detail, val |-> NoneVal]

\* x = v; F(x): v is evaluated once
Then(v, F(_)) == CHOOSE r \in {F(x) : x \in {v}} : TRUE

\* the statement with outcome r, then F on it; an exception raised by the
\* statement ends the body
Try(r, F(_)) == Then(r, LAMBDA x : IF x.exc # "" THEN x ELSE F(x))

(***************************************************************************)
(* ErrorHandler                                                            *)
(***************************************************************************)
\* the exception classes that occur, each with its base class;
\* MissingInputError is a class of the caller's own derived from
\* FileNotFoundError, KeyboardInterrupt (OTHER) derives from BaseException
ExcBase(t) ==
    CASE t \in {"FileNotFoundError", "PermissionError", "FileExistsError",
                "NotADirectoryError", "IsADirectoryError", "UnidentifiedImageError"} -> "OSError"
      [] t \in {"OSError", "ValueError", "TypeError", "RuntimeError"} -> "Exception"
      [] t = "UnicodeDecodeError" -> "ValueError"
      [] t = "MissingInputError" -> "FileNotFoundError"
      [] OTHER -> "BaseException"

RECURSIVE IsInstance(_, _)
IsInstance(t, c) ==
    IF t = c THEN TRUE
    ELSE IF t = "BaseException" THEN FALSE
    ELSE IsInstance(ExcBase(t), c)

\* the table written with the general classes first
ERROR_MESSAGES_general_first ==
    << <<"Exception", "An unexpected error occurred.">>,
       <<"OSError", "A system error occurred. Please check your file access permissions.">>,
       <<"FileNotFoundError", "The specified file could not be found.">>,
       <<"PermissionError", "You don't have permission to access this file.">>,
       <<"ValueError", "Invalid value provided for the operation.">>,
       <<"TypeError", "Incorrect type of data provided for the operation.">> >>

\* ERROR_MESSAGES, in the order the dict is written
ERROR_MESSAGES ==
    << <<"FileNotFoundError", "The specified file could not be found.">>,
       <<"PermissionError", "You don't have permission to access this file.">>,
       <<"OSError", "A system error occurred. Please check your file access permissions.">>,
       <<"ValueError", "Invalid value provided for the operation.">>,
       <<"TypeError", "Incorrect type of data provided for the operation.">>,
       <<"Exception", "An unexpected error occurred.">> >>

\* ERROR_MESSAGES[t]
TemplateOf(t) ==
    ERROR_MESSAGES[CHOOSE i \in 1..Len(ERROR_MESSAGES) : ERROR_MESSAGES[i][1] = t][2]

\* a str literal as text: the empty literal contributes nothing
Text(lit) == IF lit = "" THEN <<>> ELSE <<lit>>

\* get_error_message without the table: the exception's own text and nothing else
get_error_message_text_only(exc, detail) == detail

get_error_message(exc, detail) ==
    LET exact == {i \in 1..Len(ERROR_MESSAGES) : ERROR_MESSAGES[i][1] = exc}
        inst == {i \in 1..Len(ERROR_MESSAGES) : IsInstance(exc, ERROR_MESSAGES[i][1])}
        message ==
            IF exact # {} THEN TemplateOf(exc)
            ELSE IF inst # {}
                 THEN ERROR_MESSAGES[CHOOSE i \in inst : \A j \in inst : i <= j][2]
                 ELSE TemplateOf("Exception")
    IN IF detail # <<>>
       THEN Text(message) \o <<" Details: ">> \o detail
       ELSE Text(message)

\* log_exception: logs, then returns the message
log_exception(exc, detail) == get_error_message(exc, detail)

\* handle_exception's wrapper around the outcome r of the wrapped body: what
\* the caller gets, exc being the exception that reaches the caller ("" for none)
handle_exception(r) ==
    Then(r, LAMBDA x :
        IF x.exc = ""
        THEN [w |-> x.w, exc |-> "", ret |-> TupleVal(TRUE, x.val)]
        ELSE [w |-> Log(x.w, "log_error", x.detail), exc |-> "",
              ret |-> TupleVal(FALSE, StrVal(log_exception(x.exc, x.detail)))])

\* calling a wrapped function with keyword names it does not declare raises
\* TypeError inside the wrapper's try block
BadKeywords(kwargs, params) == kwargs \ params

CallWrapped(w, kwargs, params, r) ==
    IF BadKeywords(kwargs, params) # {}
    THEN handle_exception(Raise(w, "TypeError", <<"got an unexpected keyword argument">>))
    ELSE handle_exception(r)

(***************************************************************************)
(* FileHandler                                                             *)
(***************************************************************************)
get_file_extension(p) == Lower(Drop1(Splitext(p)[2]))

get_filename(p) == Splitext(Basename(p))[1]

get_directory(p) == Dirname(p)

\* ensure_directory_exists: os.makedirs(directory_path, exist_ok=True)
ensure_directory_exists(w, d) ==
    IF MakedirsExc(w.fs, d) # ""
    THEN Raise(Log(w, "makedirs", d), MakedirsExc(w.fs, d), <<"makedirs: ">> \o d)
    ELSE Ret([Log(w, "makedirs", d) EXCEPT !.fs = MakedirsFs(w.fs, d)], NoneVal)

generate_output_path(w, input_path, output_dir, new_extension) ==
    Then(IF output_dir = <<>> THEN get_directory(input_path) ELSE output_dir, LAMBDA dir :
    Try(ensure_directory_exists(w, dir), LAMBDA e :
        Ret(e.w, StrVal(Join(dir, DotName(get_filename(input_path), new_extension))))))

\* ', '.join(list of str)
RECURSIVE JoinComma(_)
JoinComma(l) ==
    IF l = <<>> THEN <<>>
    ELSE IF Len(l) = 1 THEN l[1]
    ELSE l[1] \o <<", ">> \o JoinComma(Tail(l))

\* validate_file without its os.path.isfile test
validate_file_without_isfile(f, file_path, allowed_extensions) ==
    IF ~Exists(f, file_path)
    THEN <<FALSE, <<"File does not exist: ">> \o file_path>>
    ELSE IF /\ allowed_extensions # <<>>
            /\ get_file_extension(file_path)
                   \notin {LStrip(Lower(allowed_extensions[i]), DOT) :
                              i \in 1..Len(allowed_extensions)}
    THEN <<FALSE, <<"Unsupported file extension: ">> \o get_file_extension(file_path)
                   \o <<". Allowed: ">> \o JoinComma(allowed_extensions)>>
    ELSE <<TRUE, <<>>>>

\* validate_file: <<is_valid, error_message>>
validate_file(f, file_path, allowed_extensions) ==
    LET ext == get_file_extension(file_path)
        norm == {LStrip(Lower(allowed_extensions[i]), DOT) : i \in 1..Len(allowed_extensions)}
    IN IF ~Exists(f, file_path)
       THEN <<FALSE, <<"File does not exist: ">> \o file_path>>
       ELSE IF ~IsFile(f, file_path)
       THEN <<FALSE, <<"Not a file: ">> \o file_path>>
       ELSE IF allowed_extensions # <<>> /\ ext \notin norm
       THEN <<FALSE, <<"Unsupported file extension: ">> \o ext \o <<". Allowed: ">>
                      \o JoinComma(allowed_extensions)>>
       ELSE <<TRUE, <<>>>>

(***************************************************************************)
(* What the external libraries do, as far as the converters can tell: a    *)
(* library call succeeds on an input whose content it can read and raises  *)
(* on the others.                                                          *)
(***************************************************************************)
\* the library's outcome on the file at p: "ok", or the exception class raised
LibOn(f, p) == IF p \in f.bad THEN "Exception" ELSE "ok"

\* the outcomes on a text handed over as a str
LibOutcomes == {"ok", "Exception"}

\* str() of the exception a library raises: a bare Exception() has no text
LibDetail(lib) == IF lib = "Exception" THEN <<>> ELSE <<"library error">>

\* the library reads the file at p (Image.open, Converter, open/read, HTML)
LibRead(w, p) ==
    IF LibOn(w.fs, p) # "ok"
    THEN Raise(Log(w, "lib", p), LibOn(w.fs, p), LibDetail(LibOn(w.fs, p)))
    ELSE Ret(Log(w, "lib", p), NoneVal)

\* writing the output file at p: open(p, 'w'), img.save(p), cv.convert(p), write_pdf(p)
WriteFile(w, p) ==
    IF WriteExc(w.fs, p) # ""
    THEN Raise(Log(w, "write", p), WriteExc(w.fs, p), <<"cannot write: ">> \o p)
    ELSE Ret([Log(w, "write", p) EXCEPT !.fs = WriteFs(w.fs, p)], StrVal(p))

InList(x, l) == \E i \in 1..Len(l) : l[i] = x

(***************************************************************************)
(* User preferences: a dictionary is a sequence of entries [k, x] in        *)
(* insertion order; a key or value is [t, s], its Python type and its text  *)
(***************************************************************************)
PyStr(s) == [t |-> "str", s |-> s]
PyInt(s) == [t |-> "int", s |-> s]
PyTuple(s) == [t |-> "tuple", s |-> s]
PyList(s) == [t |-> "list", s |-> s]
PySet(s) == [t |-> "set", s |-> s]
DictVal(d) == [t |-> "dict", s |-> <<>>, ok |-> FALSE, items |-> d]

\* d1 == d2 of two dictionaries: the same keys with the same values
DictEq(d1, d2) == {d1[i] : i \in 1..Len(d1)} = {d2[i] : i \in 1..Len(d2)}

\* no preference file written yet, no dictionary saved
NoPrefs == [text |-> <<>>, saved |-> <<>>]

\* file_path None: os.path.join(os.path.expanduser("~"), ".fileconverter_prefs.json"),
\* the home directory being the working directory
PrefsPath(file_path) ==
    IF file_path = <<>> THEN <<DOT, "fileconverter_prefs", DOT, "json">> ELSE file_path

\* json.dump of one key: str and int keys become JSON strings
JsonKey(k) == [t |-> "string", s |-> k.s]

\* json.dump of one value: a set is not JSON serializable
JsonSerializable(x) == x.t \in {"str", "int", "tuple", "list"}
JsonValue(x) ==
    CASE x.t = "str" -> [t |-> "string", s |-> x.s]
      [] x.t = "int" -> [t |-> "number", s |-> x.s]
      [] x.t \in {"tuple", "list"} -> [t |-> "array", s |-> x.s]

\* json.dump(prefs_dict, f, indent=2): the text in the file when dump returns
\* or raises; the encoder writes chunk by chunk, so a TypeError leaves the
\* beginning of an object, which is no JSON document
JsonDump(d) ==
    IF \A i \in 1..Len(d) : JsonSerializable(d[i].x)
    THEN [valid |-> TRUE, obj |-> [i \in 1..Len(d) |-> [k |-> JsonKey(d[i].k), x |-> JsonValue(d[i].x)]]]
    ELSE [valid |-> FALSE, obj |-> <<>>]

\* json.load of a document: strings, numbers and arrays come back as str, int, list
FromJson(j) ==
    CASE j.t = "string" -> PyStr(j.s)
      [] j.t = "number" -> PyInt(j.s)
      [] j.t = "array" -> PyList(j.s)
JsonLoad(text) == [i \in 1..Len(text.obj) |-> [k |-> FromJson(text.obj[i].k), x |-> FromJson(text.obj[i].x)]]

\* the content of the file at path: what save_user_preferences left there,
\* and no JSON document in any other file
TextOf(pr, path) ==
    IF path \in DOMAIN pr.text THEN pr.text[path] ELSE [valid |-> FALSE, obj |-> <<>>]

\* save_user_preferences(prefs_dict, file_path): [w, text, exc], the world and
\* the preference files' content it leaves, and the exception it raises
save_user_preferences(w, text, prefs_dict, file_path) ==
    LET path == PrefsPath(file_path)
    IN IF WriteExc(w.fs, path) # ""
       THEN [w |-> Log(Log(w, "write", path), "log_error", path), text |-> text, exc |-> ""]
       ELSE [w |-> IF JsonDump(prefs_dict).valid
                   THEN [Log(w, "write", path) EXCEPT !.fs = WriteFs(w.fs, path)]
                   ELSE Log([Log(w, "write", path) EXCEPT !.fs = WriteFs(w.fs, path)],
                            "log_error", path),
             text |-> (path :> JsonDump(prefs_dict)) @@ text,
             exc |-> ""]

\* load_user_preferences(file_path)
load_user_preferences(w, text, file_path) ==
    LET path == PrefsPath(file_path)
    IN IF ~Exists(w.fs, path) THEN Ret(w, DictVal(<<>>))
       ELSE IF IsDir(w.fs, path) \/ ~TextOf([text |-> text], path).valid
       THEN Ret(Log(w, "log_error", path), DictVal(<<>>))
       ELSE Ret(w, DictVal(JsonLoad(TextOf([text |-> text], path))))

\* the validation every converter starts with:
\*   valid, error_msg = FileHandler.validate_file(...); if not valid: raise ValueError(error_msg)
Validate(w, input_path, formats) ==
    Then(validate_file(w.fs, input_path, formats), LAMBDA v :
        IF ~v[1]
        THEN Raise(Log(w, "validate", input_path), "ValueError", v[2])
        ELSE Ret(Log(w, "validate", input_path), NoneVal))

\* if not output_path: output_path = generate_output_path(input_path, dirname(input_path), ext)
OutputPathOr(w, input_path, output_path, ext) ==
    IF output_path = <<>>
    THEN generate_output_path(w, input_path, get_directory(input_path), ext)
    ELSE Ret(w, StrVal(output_path))

(***************************************************************************)
(* ImageConverter                                                          *)
(***************************************************************************)
SUPPORTED_FORMATS ==
    << <<"png">>, <<"jpg">>, <<"jpeg">>, <<"bmp">>, <<"gif">>, <<"tiff">>, <<"tif">> >>

\* FORMAT_OPTIONS[fmt].get("quality"): <<>> when the format has no quality option
FORMAT_OPTIONS_quality(fmt) == IF fmt \in {<<"jpg">>, <<"jpeg">>} THEN <<95>> ELSE <<>>

Max2(a, b) == IF a >= b THEN a ELSE b
Min2(a, b) == IF a <= b THEN a ELSE b

\* the override taking the quality as it is given
SaveQualityAsGiven(fmt, quality) ==
    IF quality # <<>> /\ fmt \in {<<"jpg">>, <<"jpeg">>}
    THEN quality
    ELSE FORMAT_OPTIONS_quality(fmt)

\* save_options["quality"] after the override; quality is <<>> for None
SaveQuality(fmt, quality) ==
    IF quality # <<>> /\ fmt \in {<<"jpg">>, <<"jpeg">>}
    THEN <<Max2(1, Min2(100, quality[1]))>>
    ELSE FORMAT_OPTIONS_quality(fmt)

\* img.save(path) without a format argument: PIL takes the format of the file
\* it writes from the lower-cased extension of path
PilFormatOf(path) == get_file_extension(path)

\* img.save(path): PIL raises ValueError for an extension it does not know
PilSave(w, path) ==
    IF ~InList(PilFormatOf(path), SUPPORTED_FORMATS)
    THEN Raise(Log(w, "write", path), "ValueError", <<"unknown file extension: ">> \o path)
    ELSE WriteFile(LogN(w, "format", path, PilFormatOf(path)), path)

convert_image_params == {"input_path", "output_path", "output_format", "quality"}

\* the output format convert_image settles on: <<>> when neither is given
OutputFormat(output_path, output_format) ==
    IF output_format # <<>> THEN LStrip(Lower(output_format), DOT)
    ELSE IF output_path # <<>> THEN Lower(get_file_extension(output_path))
    ELSE <<>>

convert_image_body(w, input_path, output_path, output_format, quality) ==
    Try(Validate(w, input_path, SUPPORTED_FORMATS), LAMBDA v :
    Then(OutputFormat(output_path, output_format), LAMBDA fmt :
        IF output_format = <<>> /\ output_path = <<>>
        THEN Raise(v.w, "ValueError", <<"Either output_path or output_format must be specified">>)
        ELSE IF ~InList(fmt, SUPPORTED_FORMATS)
        THEN Raise(v.w, "ValueError", <<"Unsupported output format: ">> \o fmt
                        \o <<". Supported formats are: ">> \o JoinComma(SUPPORTED_FORMATS))
        ELSE Try(OutputPathOr(v.w, input_path, output_path, fmt), LAMBDA g :
             Try(LibRead(g.w, input_path), LAMBDA o :
                 PilSave(LogN(o.w, "quality", fmt, SaveQuality(fmt, quality)), g.val.s)))))

convert_image(w, kwargs, input_path, output_path, output_format, quality) ==
    CallWrapped(w, kwargs, convert_image_params,
                convert_image_body(w, input_path, output_path, output_format, quality))

\* the loop of batch_convert over input_files[i..]; items is converted_files.
\* Every str result is appended: a path and an error message are both str
RECURSIVE image_batch_loop(_, _, _, _, _, _)
image_batch_loop(w, input_files, i, output_dir, output_format, quality) ==
    IF i > Len(input_files) THEN [w |-> w, items |-> <<>>]
    ELSE Then(convert_image(Log(w, "item", input_files[i]), {"quality"}, input_files[i],
                            Join(output_dir, DotName(get_filename(input_files[i]), output_format)),
                            <<>>, quality), LAMBDA c :
         Then(image_batch_loop(IF IsStr(Payload(c.ret)) THEN c.w
                               ELSE Log(c.w, "log_error", input_files[i]),
                               input_files, i + 1, output_dir, output_format, quality),
              LAMBDA rest :
                  [w |-> rest.w,
                   items |-> IF IsStr(Payload(c.ret)) THEN <<Payload(c.ret)>> \o rest.items
                             ELSE rest.items]))

image_batch_convert_body(w, input_files, output_dir, output_format, quality) ==
    Try(ensure_directory_exists(w, output_dir), LAMBDA e :
    Then(image_batch_loop(e.w, input_files, 1, output_dir, output_format, quality), LAMBDA l :
        Ret(l.w, ListVal(l.items))))

image_batch_convert(w, input_files, output_dir, output_format, quality) ==
    handle_exception(image_batch_convert_body(w, input_files, output_dir, output_format, quality))

\* int(a * (n / d)) in IEEE double arithmetic, for 1 <= a, n, d <= 16: the
\* product of the rounded quotient falls just short of the integer in two cases
PyIntMulDiv(a, n, d) ==
    IF <<a, n, d>> \in {<<11, 15, 11>>, <<13, 15, 13>>}
    THEN ((a * n) \div d) - 1
    ELSE (a * n) \div d

\* resize_image scaling by the aspect ratio whatever maintain_aspect_ratio says
ResizeDimsAlwaysScaled(width, height, maintain_aspect_ratio, size) ==
    LET hasW == width # <<>> /\ width[1] # 0
        hasH == height # <<>> /\ height[1] # 0
    IN IF hasW /\ hasH
       THEN IF width[1] * size[2] <= height[1] * size[1]
            THEN <<width[1], (size[2] * width[1]) \div size[1]>>
            ELSE <<(size[1] * height[1]) \div size[2], height[1]>>
       ELSE IF hasW
       THEN <<width[1], (size[2] * width[1]) \div size[1]>>
       ELSE <<(size[1] * height[1]) \div size[2], height[1]>>

\* the new size computed by resize_image; width, height are <<>> for None
\* (0 counts as not given); size is the size of the opened image
ResizeDims(width, height, maintain_aspect_ratio, size) ==
    LET hasW == width # <<>> /\ width[1] # 0
        hasH == height # <<>> /\ height[1] # 0
        ow == size[1]
        oh == size[2]
    IN IF maintain_aspect_ratio
       THEN IF hasW /\ hasH
            THEN IF width[1] * oh <= height[1] * ow
                 THEN <<PyIntMulDiv(ow, width[1], ow), PyIntMulDiv(oh, width[1], ow)>>
                 ELSE <<PyIntMulDiv(ow, height[1], oh), PyIntMulDiv(oh, height[1], oh)>>
            ELSE IF hasW
            THEN <<width[1], PyIntMulDiv(oh, width[1], ow)>>
            ELSE <<PyIntMulDiv(ow, height[1], oh), height[1]>>
       ELSE <<IF hasW THEN width[1] ELSE ow, IF hasH THEN height[1] ELSE oh>>

\* img.resize(size): PIL raises ValueError unless both dimensions are positive
PilResize(w, input_path, dims) ==
    IF dims[1] <= 0 \/ dims[2] <= 0
    THEN Raise(LogN(w, "resize", input_path, dims), "ValueError", <<"height and width must be > 0">>)
    ELSE Ret(LogN(w, "resize", input_path, dims), NoneVal)

resize_image_body(w, input_path, output_path, width, height, maintain_aspect_ratio, size) ==
    IF ~(width # <<>> /\ width[1] # 0) /\ ~(height # <<>> /\ height[1] # 0)
    THEN Raise(w, "ValueError", <<"At least one of width or height must be specified">>)
    ELSE Try(Validate(w, input_path, SUPPORTED_FORMATS), LAMBDA v :
         Try(LibRead(v.w, input_path), LAMBDA o :
         Try(PilResize(o.w, input_path, ResizeDims(width, height, maintain_aspect_ratio, size)),
             LAMBDA r : PilSave(r.w, output_path))))

resize_image(w, input_path, output_path, width, height, maintain_aspect_ratio, size) ==
    handle_exception(resize_image_body(w, input_path, output_path, width, height,
                                       maintain_aspect_ratio, size))

(***************************************************************************)
(* PdfToWordConverter                                                      *)
(***************************************************************************)
PDF_INPUT_FORMATS == << <<"pdf">> >>

convert_pdf_to_word_params == {"input_path", "output_path", "start_page", "end_page", "pages"}

\* the shape below with the validation moved behind the output path and its
\* directory
ConvertFileValidatingLate(w, input_path, output_path, formats, ext) ==
    Try(OutputPathOr(w, input_path, output_path, ext), LAMBDA g :
    Try(ensure_directory_exists(g.w, Dirname(g.val.s)), LAMBDA e :
    Try(Validate(e.w, input_path, formats), LAMBDA v :
    Try(LibRead(v.w, input_path), LAMBDA o :
        WriteFile(o.w, g.val.s)))))

\* the shape shared by convert_pdf_to_word, convert_md_to_html and
\* convert_html_to_pdf after their first lines: validate, generate the output
\* path if none is given, create its directory, read the input, write the output
ConvertFile(w, input_path, output_path, formats, ext) ==
    Try(Validate(w, input_path, formats), LAMBDA v :
    Try(OutputPathOr(v.w, input_path, output_path, ext), LAMBDA g :
    Try(ensure_directory_exists(g.w, Dirname(g.val.s)), LAMBDA e :
    Try(LibRead(e.w, input_path), LAMBDA o :
        WriteFile(o.w, g.val.s)))))

convert_pdf_to_word_body(w, input_path, output_path) ==
    ConvertFile(w, input_path, output_path, PDF_INPUT_FORMATS, <<"docx">>)

convert_pdf_to_word(w, kwargs, input_path, output_path) ==
    CallWrapped(w, kwargs, convert_pdf_to_word_params,
                convert_pdf_to_word_body(w, input_path, output_path))

\* the loop of batch_convert left at the first item that fails
RECURSIVE pdf_batch_loop_until_failure(_, _, _, _)
pdf_batch_loop_until_failure(w, input_files, i, output_dir) ==
    IF i > Len(input_files) THEN [w |-> w, items |-> <<>>]
    ELSE Then(convert_pdf_to_word(Log(w, "item", input_files[i]), {}, input_files[i],
                  Join(output_dir, DotName(get_filename(input_files[i]), <<"docx">>))),
              LAMBDA c :
         IF ~c.ret.ok THEN [w |-> Log(c.w, "log_error", input_files[i]), items |-> <<>>]
         ELSE Then(pdf_batch_loop_until_failure(c.w, input_files, i + 1, output_dir),
                   LAMBDA rest : [w |-> rest.w, items |-> <<Payload(c.ret)>> \o rest.items]))

RECURSIVE pdf_batch_loop(_, _, _, _)
pdf_batch_loop(w, input_files, i, output_dir) ==
    IF i > Len(input_files) THEN [w |-> w, items |-> <<>>]
    ELSE Then(convert_pdf_to_word(Log(w, "item", input_files[i]), {}, input_files[i],
                  Join(output_dir, DotName(get_filename(input_files[i]), <<"docx">>))),
              LAMBDA c :
         Then(pdf_batch_loop(IF c.ret.ok THEN c.w ELSE Log(c.w, "log_error", input_files[i]),
                             input_files, i + 1, output_dir), LAMBDA rest :
              [w |-> rest.w,
               items |-> IF c.ret.ok THEN <<Payload(c.ret)>> \o rest.items ELSE rest.items]))

pdf_batch_convert_body(w, input_files, output_dir) ==
    Try(ensure_directory_exists(w, output_dir), LAMBDA e :
    Then(pdf_batch_loop(e.w, input_files, 1, output_dir), LAMBDA l :
        Ret(l.w, ListVal(l.items))))

pdf_batch_convert(w, input_files, output_dir) ==
    handle_exception(pdf_batch_convert_body(w, input_files, output_dir))

(***************************************************************************)
(* MarkdownToHtmlConverter                                                 *)
(***************************************************************************)
MD_INPUT_FORMATS == << <<"md">>, <<"markdown">> >>

convert_md_to_html_params ==
    {"input_path", "output_path", "title", "use_default_css", "custom_css",
     "extensions", "text_direction"}

convert_md_to_html_body(w, input_path, output_path) ==
    ConvertFile(w, input_path, output_path, MD_INPUT_FORMATS, <<"html">>)

convert_md_to_html(w, kwargs, input_path, output_path) ==
    CallWrapped(w, kwargs, convert_md_to_html_params,
                convert_md_to_html_body(w, input_path, output_path))

\* the wrapped convert_md_to_html never raises, so the loop's except branch
\* is dead and every result, a (success, payload) pair, is appended
RECURSIVE md_html_batch_loop(_, _, _, _)
md_html_batch_loop(w, input_files, i, output_dir) ==
    IF i > Len(input_files) THEN [w |-> w, items |-> <<>>]
    ELSE Then(convert_md_to_html(Log(w, "item", input_files[i]),
                  {"use_default_css", "custom_css", "text_direction"},
                  input_files[i],
                  Join(output_dir, DotName(get_filename(input_files[i]), <<"html">>))),
              LAMBDA c :
         Then(md_html_batch_loop(c.w, input_files, i + 1, output_dir), LAMBDA rest :
              [w |-> rest.w, items |-> <<c.ret>> \o rest.items]))

md_html_batch_convert_body(w, input_files, output_dir) ==
    Try(ensure_directory_exists(w, output_dir), LAMBDA e :
    Then(md_html_batch_loop(e.w, input_files, 1, output_dir), LAMBDA l :
        Ret(l.w, ListVal(l.items))))

md_html_batch_convert(w, input_files, output_dir) ==
    handle_exception(md_html_batch_convert_body(w, input_files, output_dir))

(***************************************************************************)
(* HtmlToPdfConverter                                                      *)
(***************************************************************************)
HTML_INPUT_FORMATS == << <<"html">>, <<"htm">> >>

\* HtmlToPdfConverter.is_available()
html_is_available(flag) == flag

UnavailableText ==
    <<"WeasyPrint is not available. Please install all required dependencies for WeasyPrint to use this feature.">>

convert_html_to_pdf_params ==
    {"input_path", "output_path", "stylesheet", "base_url", "options", "text_direction"}

convert_html_to_pdf_body(w, flag, input_path, output_path) ==
    IF ~flag THEN Raise(w, "RuntimeError", UnavailableText)
    ELSE ConvertFile(w, input_path, output_path, HTML_INPUT_FORMATS, <<"pdf">>)

convert_html_to_pdf(w, flag, kwargs, input_path, output_path) ==
    CallWrapped(w, kwargs, convert_html_to_pdf_params,
                convert_html_to_pdf_body(w, flag, input_path, output_path))

\* tempfile.NamedTemporaryFile(suffix='.html', delete=False): a name in the
\* temporary directory that no file has yet
TmpNames == <<"t1", "t2", "t3", "t4">>
TmpPathOf(i) == <<"tmp", SEP, TmpNames[i], DOT, "html">>
TmpPath(f) ==
    TmpPathOf(CHOOSE i \in 1..Len(TmpNames) :
                 /\ ~Exists(f, TmpPathOf(i))
                 /\ \A j \in 1..(i - 1) : Exists(f, TmpPathOf(j)))

\* creating the temporary file: the world after it, its path in val
MakeTemp(w) ==
    Ret([Log(w, "tmpfile", TmpPath(w.fs)) EXCEPT !.fs = WriteFs(w.fs, TmpPath(w.fs))],
        StrVal(TmpPath(w.fs)))

\* a finally block that removes nothing
LeaveFile(w, path) == w

\* the finally block: if os.path.exists(path): os.unlink(path)
UnlinkIfExists(w, path) ==
    IF Exists(w.fs, path)
    THEN [Log(w, "unlink", path) EXCEPT !.fs = UnlinkFs(w.fs, path)]
    ELSE w

\* lib: what the renderer does on html_string
convert_html_string_to_pdf_body(w, flag, output_path, lib) ==
    IF ~flag THEN Raise(w, "RuntimeError", UnavailableText)
    ELSE Try(ensure_directory_exists(w, Dirname(output_path)), LAMBDA e :
         Then(MakeTemp(e.w), LAMBDA t :
         Then(IF lib # "ok"
              THEN Raise(Log(t.w, "lib", t.val.s), lib, LibDetail(lib))
              ELSE WriteFile(Log(t.w, "lib", t.val.s), output_path), LAMBDA r :
             [r EXCEPT !.w = UnlinkIfExists(r.w, t.val.s)])))

convert_html_string_to_pdf(w, flag, output_path, lib) ==
    handle_exception(convert_html_string_to_pdf_body(w, flag, output_path, lib))

\* converted_path is the (success, payload) pair, which is always truthy
RECURSIVE html_batch_loop(_, _, _, _, _)
html_batch_loop(w, flag, input_files, i, output_dir) ==
    IF i > Len(input_files) THEN [w |-> w, items |-> <<>>]
    ELSE Then(convert_html_to_pdf(Log(w, "item", input_files[i]), flag,
                  {"stylesheet", "text_direction"}, input_files[i],
                  Join(output_dir, DotName(get_filename(input_files[i]), <<"pdf">>))),
              LAMBDA c :
         Then(html_batch_loop(IF Truthy(c.ret) THEN c.w
                              ELSE Log(c.w, "log_error", input_files[i]),
                              flag, input_files, i + 1, output_dir), LAMBDA rest :
              [w |-> rest.w,
               items |-> IF Truthy(c.ret) THEN <<c.ret>> \o rest.items ELSE rest.items]))

html_batch_convert_body(w, flag, input_files, output_dir) ==
    IF ~flag THEN Raise(w, "RuntimeError", UnavailableText)
    ELSE Try(ensure_directory_exists(w, output_dir), LAMBDA e :
         Then(html_batch_loop(e.w, flag, input_files, 1, output_dir), LAMBDA l :
             Ret(l.w, ListVal(l.items))))

html_batch_convert(w, flag, input_files, output_dir) ==
    handle_exception(html_batch_convert_body(w, flag, input_files, output_dir))

(***************************************************************************)
(* MarkdownToPdfConverter                                                  *)
(***************************************************************************)
\* MarkdownToPdfConverter.is_available()
md_pdf_is_available(flag) == html_is_available(flag)

MdPdfUnavailableText ==
    <<"HTML to PDF conversion is not available. Please install all required dependencies for WeasyPrint to use this feature.">>

convert_md_to_pdf_params ==
    {"input_path", "output_path", "title", "use_default_css", "custom_css",
     "keep_html", "html_path", "pdf_options", "text_direction"}

\* the keywords convert_md_to_pdf passes to its two steps
MdStepKwargs == {"title", "use_default_css", "custom_css", "text_direction"}
PdfStepKwargs == {"options", "text_direction", "use_custom_css"}

\* the path of the intermediate HTML file: generated when it is kept and none
\* is given, a fresh temporary file when it is not kept
HtmlPathFor(w, input_path, output_dir, keep_html, html_path) ==
    IF keep_html
    THEN IF html_path = <<>>
         THEN generate_output_path(w, input_path, output_dir, <<"html">>)
         ELSE Ret(w, StrVal(html_path))
    ELSE MakeTemp(w)

\* the try block, with its two steps, and the finally block; the call of each
\* step is an event of its own
MdPdfSteps(w, flag, input_path, output_path, keep_html, hp) ==
    Then(convert_md_to_html(Log(w, "step", <<"convert_md_to_html">>), MdStepKwargs,
                            input_path, hp), LAMBDA html_result :
    Then(convert_html_to_pdf(Log(html_result.w, "step", <<"convert_html_to_pdf">>), flag,
                             PdfStepKwargs, hp, output_path),
         LAMBDA pdf_result :
        Ret(IF ~keep_html /\ hp # <<>> THEN UnlinkIfExists(pdf_result.w, hp) ELSE pdf_result.w,
            pdf_result.ret)))

\* the body up to its try block: the availability test, the validation, the
\* output path and its directory, the path of the HTML file; val holds the
\* output path and the HTML path
MdPdfPrepare(w, flag, input_path, output_path, keep_html, html_path) ==
    IF ~html_is_available(flag) THEN Raise(w, "RuntimeError", MdPdfUnavailableText)
    ELSE Try(Validate(w, input_path, MD_INPUT_FORMATS), LAMBDA v :
         Try(OutputPathOr(v.w, input_path, output_path, <<"pdf">>), LAMBDA g :
         Try(ensure_directory_exists(g.w, Dirname(g.val.s)), LAMBDA e :
         Try(HtmlPathFor(e.w, input_path, Dirname(g.val.s), keep_html, html_path), LAMBDA h :
             Ret(h.w, ListVal(<<g.val, h.val>>))))))

convert_md_to_pdf_body(w, flag, input_path, output_path, keep_html, html_path) ==
    Try(MdPdfPrepare(w, flag, input_path, output_path, keep_html, html_path), LAMBDA p :
        MdPdfSteps(p.w, flag, input_path, p.val.items[1].s, keep_html, p.val.items[2].s))

convert_md_to_pdf(w, flag, kwargs, input_path, output_path, keep_html, html_path) ==
    CallWrapped(w, kwargs, convert_md_to_pdf_params,
                convert_md_to_pdf_body(w, flag, input_path, output_path, keep_html, html_path))

\* as in md_to_html: the except branch is dead, every result is appended
RECURSIVE md_pdf_batch_loop(_, _, _, _, _, _)
md_pdf_batch_loop(w, flag, input_files, i, output_dir, keep_html) ==
    IF i > Len(input_files) THEN [w |-> w, items |-> <<>>]
    ELSE Then(convert_md_to_pdf(Log(w, "item", input_files[i]), flag,
                  {"use_default_css", "custom_css", "keep_html", "html_path", "text_direction"},
                  input_files[i],
                  Join(output_dir, DotName(get_filename(input_files[i]), <<"pdf">>)),
                  keep_html,
                  IF keep_html
                  THEN Join(output_dir, DotName(get_filename(input_files[i]), <<"html">>))
                  ELSE <<>>), LAMBDA c :
         Then(md_pdf_batch_loop(c.w, flag, input_files, i + 1, output_dir, keep_html),
              LAMBDA rest : [w |-> rest.w, items |-> <<c.ret>> \o rest.items]))

\* batch_convert without its own is_available() test
md_pdf_batch_convert_body_unguarded(w, flag, input_files, output_dir, keep_html) ==
    Try(ensure_directory_exists(w, output_dir), LAMBDA e :
    Then(md_pdf_batch_loop(e.w, flag, input_files, 1, output_dir, keep_html), LAMBDA l :
        Ret(l.w, ListVal(l.items))))

md_pdf_batch_convert_body(w, flag, input_files, output_dir, keep_html) ==
    IF ~html_is_available(flag) THEN Raise(w, "RuntimeError", MdPdfUnavailableText)
    ELSE Try(ensure_directory_exists(w, output_dir), LAMBDA e :
         Then(md_pdf_batch_loop(e.w, flag, input_files, 1, output_dir, keep_html), LAMBDA l :
             Ret(l.w, ListVal(l.items))))

md_pdf_batch_convert(w, flag, input_files, output_dir, keep_html) ==
    handle_exception(md_pdf_batch_convert_body(w, flag, input_files, output_dir, keep_html))

(***************************************************************************)
(* The paths, formats and options the calls are made with                  *)
(***************************************************************************)
P(dir, stem, ext) == <<dir, SEP, stem, DOT, ext>>

\* the file system before the first call: per kind of input a readable file
\* (a) and an unreadable one (c), two bare file names in the working
\* directory, a regular file named blk, and the directories in and tmp
Fs0 ==
    [files |-> {P("in", "a", "png"), P("in", "b", "PNG"), P("in", "c", "png"),
                P("in", "a", "txt"),
                P("in", "a", "md"), P("in", "c", "md"),
                P("in", "a", "html"), P("in", "c", "html"),
                P("in", "a", "pdf"), P("in", "c", "pdf"),
                <<"a", DOT, "png">>, <<"a", DOT, "md">>, <<"blk">>},
     dirs |-> {<<"in">>, <<"tmp">>},
     bad |-> {P("in", "c", "png"), P("in", "c", "md"), P("in", "c", "html"),
              P("in", "c", "pdf")}]

\* the same with the output directory out in place, holding an earlier output
Fs1 == [Fs0 EXCEPT !.dirs = @ \cup {<<"out">>}, !.files = @ \cup {P("out", "a", "html")}]

World(f) == [fs |-> f, log |-> <<>>]

\* per converter: a readable input, an unreadable one, one of another
\* extension, one that does not exist
InputsFor(ext) == {P("in", "a", ext), P("in", "c", ext), P("in", "a", "txt"), P("in", "zz", ext)}
ImageInputs == InputsFor("png") \cup {P("in", "b", "PNG"), <<"in">>, <<"a", DOT, "png">>}
ImageOutputs == {<<>>, P("out", "x", "jpg"), <<"in", SEP, "x">>, P("blk", "x", "jpg")}
ImageFormats == {<<>>, <<"jpg">>, <<DOT, "PNG">>, <<"invalid">>}
Qualities == {<<>>, <<0>>, <<50>>, <<101>>}
MdInputs == InputsFor("md") \cup {<<"a", DOT, "md">>}
OutputsFor(ext) == {<<>>, P("out", "x", ext), <<"x", DOT, ext>>, P("blk", "x", ext)}
HtmlPaths == {<<>>, P("out", "k", "html")}
OutputDirs == {<<"out">>, <<"blk">>, <<"in">>}

\* the lists of at most n files drawn from S
RECURSIVE ListsUpTo(_, _)
ListsUpTo(S, n) ==
    IF n = 0 THEN {<<>>}
    ELSE ListsUpTo(S, n - 1)
         \cup {Append(l, x) : l \in {m \in ListsUpTo(S, n - 1) : Len(m) = n - 1}, x \in S}

Batches(S) == ListsUpTo(S, MaxBatch)

(***************************************************************************)
(* The public calls.  call records the call that has just returned: its    *)
(* arguments, the file system it started from (pre), its effects in order  *)
(* (log), the value it returned (ret) and the exception that reached the   *)
(* caller (exc).                                                           *)
(***************************************************************************)
NoCall ==
    [op |-> "none", inp |-> <<>>, out |-> <<>>, fmt |-> <<>>, q |-> <<>>, keep |-> FALSE,
     htmlp |-> <<>>, files |-> <<>>, allowed |-> <<>>, lib |-> "ok",
     etype |-> "", detail |-> <<>>,
     wd |-> <<>>, ht |-> <<>>, size |-> <<>>, flag |-> FALSE,
     pre |-> Fs0, log |-> <<>>, ret |-> NoneVal, exc |-> ""]

\* the call c is made and returns with outcome r
Returns(c, r) ==
    /\ call.op = "none"
    /\ ncalls < MaxCalls
    /\ call' = [c EXCEPT !.pre = fs, !.flag = weasy, !.log = r.w.log, !.ret = r.ret, !.exc = r.exc]
    /\ fs' = r.w.fs
    /\ ncalls' = ncalls + 1
    /\ UNCHANGED <<weasy, prefs, guiVars>>

\* the caller has taken the result and is ready for its next call
TakeResult ==
    /\ call.op # "none"
    /\ call' = NoCall
    /\ UNCHANGED <<fs, weasy, ncalls, prefs, guiVars>>

\* an unwrapped function's outcome as the caller sees it
Plain(r) == [w |-> r.w, exc |-> r.exc, ret |-> r.val]

ValidateFile ==
    \E p \in ImageInputs, allowed \in {SUPPORTED_FORMATS, <<>>, << <<DOT, "PNG">> >>} :
        Returns([NoCall EXCEPT !.op = "validate_file", !.inp = p, !.allowed = allowed],
                LET v == validate_file(fs, p, allowed)
                IN [w |-> World(fs), exc |-> "", ret |-> TupleVal(v[1], StrVal(v[2]))])

\* the exceptions get_error_message is called with: their class and str()
ExceptionTypes ==
    {"FileNotFoundError", "PermissionError", "OSError", "ValueError", "TypeError",
     "Exception", "NotADirectoryError", "UnicodeDecodeError", "RuntimeError",
     "MissingInputError", "KeyboardInterrupt"}
ExceptionTexts == {<<>>, <<"no such file">>}

GetErrorMessage ==
    \E t \in ExceptionTypes, d \in ExceptionTexts :
        Returns([NoCall EXCEPT !.op = "get_error_message", !.etype = t, !.detail = d],
                [w |-> World(fs), exc |-> "", ret |-> StrVal(get_error_message(t, d))])

GenerateOutputPath ==
    \E p \in ImageInputs, d \in {<<>>} \cup OutputDirs \cup {<<"out", SEP, "sub">>},
       ext \in {<<"jpg">>} :
        Returns([NoCall EXCEPT !.op = "generate_output_path", !.inp = p, !.out = d, !.fmt = ext],
                Plain(generate_output_path(World(fs), p, d, ext)))

ConvertImage ==
    \E p \in ImageInputs, o \in ImageOutputs, f \in ImageFormats, q \in Qualities :
        Returns([NoCall EXCEPT !.op = "convert_image", !.inp = p, !.out = o, !.fmt = f, !.q = q],
                convert_image(World(fs), {}, p, o, f, q))

Widths == {<<>>, <<0>>, <<3>>, <<15>>}
Heights == {<<>>, <<3>>, <<15>>}
Sizes == {<<4, 2>>, <<2, 7>>, <<11, 11>>}

ResizeImage ==
    \E p \in {P("in", "a", "png"), P("in", "c", "png"), P("in", "zz", "png")},
       o \in {P("out", "x", "jpg"), P("in", "r", "png")},
       wd \in Widths, ht \in Heights, keep \in BOOLEAN, size \in Sizes :
        Returns([NoCall EXCEPT !.op = "resize_image", !.inp = p, !.out = o, !.wd = wd,
                               !.ht = ht, !.keep = keep, !.size = size],
                resize_image(World(fs), p, o, wd, ht, keep, size))

ImageBatchConvert ==
    \E files \in Batches(InputsFor("png") \cup {<<"a", DOT, "png">>}), d \in OutputDirs,
       f \in {<<"jpg">>} :
        Returns([NoCall EXCEPT !.op = "image_batch_convert", !.files = files, !.out = d, !.fmt = f],
                image_batch_convert(World(fs), files, d, f, <<>>))

ConvertPdfToWord ==
    \E p \in InputsFor("pdf"), o \in OutputsFor("docx") :
        Returns([NoCall EXCEPT !.op = "convert_pdf_to_word", !.inp = p, !.out = o],
                convert_pdf_to_word(World(fs), {}, p, o))

PdfBatchConvert ==
    \E files \in Batches(InputsFor("pdf")), d \in OutputDirs :
        Returns([NoCall EXCEPT !.op = "pdf_batch_convert", !.files = files, !.out = d],
                pdf_batch_convert(World(fs), files, d))

ConvertMdToHtml ==
    \E p \in MdInputs, o \in OutputsFor("html") :
        Returns([NoCall EXCEPT !.op = "convert_md_to_html", !.inp = p, !.out = o],
                convert_md_to_html(World(fs), {}, p, o))

MdHtmlBatchConvert ==
    \E files \in Batches(InputsFor("md")), d \in OutputDirs :
        Returns([NoCall EXCEPT !.op = "md_html_batch_convert", !.files = files, !.out = d],
                md_html_batch_convert(World(fs), files, d))

ConvertHtmlToPdf ==
    \E p \in InputsFor("html"), o \in OutputsFor("pdf") :
        Returns([NoCall EXCEPT !.op = "convert_html_to_pdf", !.inp = p, !.out = o],
                convert_html_to_pdf(World(fs), weasy, {}, p, o))

ConvertHtmlStringToPdf ==
    \E o \in OutputsFor("pdf") \ {<<>>}, lib \in LibOutcomes :
        Returns([NoCall EXCEPT !.op = "convert_html_string_to_pdf", !.out = o, !.lib = lib],
                convert_html_string_to_pdf(World(fs), weasy, o, lib))

HtmlBatchConvert ==
    \E files \in Batches(InputsFor("html")), d \in OutputDirs :
        Returns([NoCall EXCEPT !.op = "html_batch_convert", !.files = files, !.out = d],
                html_batch_convert(World(fs), weasy, files, d))

ConvertMdToPdf ==
    \E p \in MdInputs, o \in OutputsFor("pdf"), keep \in BOOLEAN, h \in HtmlPaths :
        Returns([NoCall EXCEPT !.op = "convert_md_to_pdf", !.inp = p, !.out = o, !.keep = keep,
                               !.htmlp = h],
                convert_md_to_pdf(World(fs), weasy, {}, p, o, keep, h))

MdPdfBatchConvert ==
    \E files \in Batches(InputsFor("md")), d \in OutputDirs, keep \in BOOLEAN :
        Returns([NoCall EXCEPT !.op = "md_pdf_batch_convert", !.files = files, !.out = d,
                               !.keep = keep],
                md_pdf_batch_convert(World(fs), weasy, files, d, keep))

(***************************************************************************)
(* The GUI: the main window, its converter tabs and their workers          *)
(***************************************************************************)
TabNames == {"image", "pdf_word", "md_html", "html_pdf", "md_pdf"}

\* a tab after ConverterTabBase.__init__ and setup_ui: the attributes and the
\* widget states the handlers read and write; worker is the index of
\* self.worker in workers, 0 for None; last_modal is the message box the tab
\* showed last
NewTab ==
    [input_file |-> <<>>, output_dir |-> <<>>, worker |-> 0,
     file_drop_enabled |-> TRUE, browse_dir_enabled |-> TRUE, clear_visible |-> FALSE,
     convert_enabled |-> FALSE, progress_visible |-> FALSE, status |-> "", is_error |-> FALSE,
     last_modal |-> ""]

\* setup_ui creating all five tabs whatever the flags
TabsCreatedAlways(html_to_pdf_available, md_to_pdf_available) == TabNames

\* the tabs MainWindow.setup_ui creates, given what the two is_available() return
TabsCreated(html_to_pdf_available, md_to_pdf_available) ==
    {"image", "pdf_word", "md_html"}
        \cup (IF html_to_pdf_available THEN {"html_pdf"} ELSE {})
        \cup (IF md_to_pdf_available THEN {"md_pdf"} ELSE {})

\* the converter function a tab hands to its worker
TabFunc(t) ==
    CASE t = "image" -> "convert_image"
      [] t = "pdf_word" -> "convert_pdf_to_word"
      [] t = "md_html" -> "convert_md_to_html"
      [] t = "html_pdf" -> "convert_html_to_pdf"
      [] t = "md_pdf" -> "convert_md_to_pdf"

\* the extensions a tab's file input accepts
TabAccepted(t) ==
    CASE t = "image" -> SUPPORTED_FORMATS
      [] t = "pdf_word" -> PDF_INPUT_FORMATS
      [] t = "md_html" -> MD_INPUT_FORMATS
      [] t = "html_pdf" -> HTML_INPUT_FORMATS
      [] t = "md_pdf" -> MD_INPUT_FORMATS

\* the extension of the output path a tab builds; the image tab uses its combo
TabExtension(t) ==
    CASE t = "pdf_word" -> <<"docx">>
      [] t = "md_html" -> <<"html">>
      [] t = "html_pdf" -> <<"pdf">>
      [] t = "md_pdf" -> <<"pdf">>
      [] OTHER -> <<>>

\* the keyword arguments a tab's start_conversion passes
TabKwargs(t) ==
    CASE t = "image" -> {"output_path", "output_format", "quality"}
      [] t = "pdf_word" -> {"output_path", "start_page", "end_page"}
      [] t = "md_html" -> {"output_path", "title", "use_default_css"}
      [] t = "html_pdf" -> {"output_path"}
      [] t = "md_pdf" -> {"output_path", "title", "use_default_css", "keep_html"}

\* DragDropFileWidget: any(file_path.lower().endswith(f".{ext}") for ext in accepted)
AcceptsDrop(accepted, p) ==
    \E i \in 1..Len(accepted) :
        /\ Len(p) >= 2
        /\ SubSeq(Lower(p), Len(p) - 1, Len(p)) = <<DOT>> \o LStrip(Lower(accepted[i]), DOT)

\* ImageConverterTab: self.quality_slider.setValue(95)
QualitySliderValue == 95

\* ConverterTabBase.update_convert_button
\* update_convert_button enabling the button whatever is selected
update_convert_button_always(tb) == [tb EXCEPT !.convert_enabled = TRUE]

update_convert_button(tb) == [tb EXCEPT !.convert_enabled = (tb.input_file # <<>>)]

\* ConverterTabBase.update_status
update_status(tb, message, is_error) == [tb EXCEPT !.status = message, !.is_error = is_error]

\* set_busy leaving the Convert button to the selected file alone
set_busy_convert_follows_file(tb, busy) ==
    Then([tb EXCEPT !.file_drop_enabled = ~busy, !.browse_dir_enabled = ~busy,
                    !.convert_enabled = tb.input_file # <<>>,
                    !.progress_visible = busy], LAMBDA x :
        IF busy THEN update_status(x, "Converting... Please wait.", FALSE) ELSE x)

\* ConverterTabBase.set_busy
set_busy(tb, busy) ==
    Then([tb EXCEPT !.file_drop_enabled = ~busy, !.browse_dir_enabled = ~busy,
                    !.convert_enabled = ~busy /\ tb.input_file # <<>>,
                    !.progress_visible = busy], LAMBDA x :
        IF busy THEN update_status(x, "Converting... Please wait.", FALSE) ELSE x)

\* ConverterTabBase.conversion_error: the status label, then QMessageBox.critical
conversion_error(tb) ==
    [update_status(set_busy(tb, FALSE), "Error", TRUE) EXCEPT !.last_modal = "critical"]

\* conversion_complete without its first line, set_busy(False)
conversion_complete_stays_busy(tb, result, f) ==
    IF ~Truthy(result) THEN tb
    ELSE IF IsTuple(result) /\ ~result.ok THEN update_status(tb, "Error", TRUE)
    ELSE update_status(tb, "Conversion complete", FALSE)

\* ConverterTabBase.conversion_complete, f being the file system it looks at
conversion_complete(tb, result, f) ==
    IF ~Truthy(result) THEN set_busy(tb, FALSE)
    ELSE IF IsTuple(result) /\ ~result.ok THEN conversion_error(set_busy(tb, FALSE))
    ELSE Then(IF IsTuple(result) THEN Payload(result) ELSE result, LAMBDA r :
         IF IsStr(r) /\ Exists(f, r.s)
         THEN [update_status(set_busy(tb, FALSE), "Conversion complete: file", FALSE)
                  EXCEPT !.last_modal = "question"]
         ELSE update_status(set_busy(tb, FALSE), "Conversion complete", FALSE))

\* where a convert_md_to_pdf call stands when it enters its try block: the
\* exception that ended it before, the output path, the HTML path
NoMid == [exc |-> "", detail |-> <<>>, out |-> <<>>, hp |-> <<>>]

\* a ConversionWorker after __init__ and start(): pc is where run stands ("done": it
\* has returned), and
\* terminated tells that QThread.terminate() has ended the thread there
NewWorker(t, func, kwargs, inp, out, fmt, q, keep, raises) ==
    [tab |-> t, func |-> func, kwargs |-> kwargs, inp |-> inp, out |-> out, fmt |-> fmt,
     q |-> q, keep |-> keep, raises |-> raises,
     pc |-> "started", ret |-> NoneVal, exc |-> "", detail |-> <<>>,
     emitted |-> <<>>, delivered |-> 0, deleted |-> FALSE, terminated |-> FALSE,
     mid |-> NoMid]

\* self.converter_func(*self.args, **self.kwargs): a converter method, or any
\* other callable, which returns None or raises wk.raises
CallConverterFunc(wk, f, flag) ==
    CASE wk.func = "convert_image" ->
             convert_image(World(f), wk.kwargs, wk.inp, wk.out, wk.fmt, wk.q)
      [] wk.func = "convert_pdf_to_word" ->
             convert_pdf_to_word(World(f), wk.kwargs, wk.inp, wk.out)
      [] wk.func = "convert_md_to_html" ->
             convert_md_to_html(World(f), wk.kwargs, wk.inp, wk.out)
      [] wk.func = "convert_html_to_pdf" ->
             convert_html_to_pdf(World(f), flag, wk.kwargs, wk.inp, wk.out)
      [] wk.func = "convert_md_to_pdf" ->
             convert_md_to_pdf(World(f), flag, wk.kwargs, wk.inp, wk.out, wk.keep, <<>>)
      [] OTHER -> [w |-> World(f), exc |-> wk.raises, ret |-> NoneVal]

\* run with its except branch emitting result as well
TerminalSignalAlwaysResult(wk) == "result"

\* the terminal notification run emits once the call is over: result at the
\* end of the try block, error in the except block
TerminalSignal(wk) == IF wk.exc = "" THEN "result" ELSE "error"

Emit(wk, sig, val) == [wk EXCEPT !.emitted = Append(@, [sig |-> sig, val |-> val])]

\* the signals a worker has emitted so far, in order
Signals(wk) == [i \in 1..Len(wk.emitted) |-> wk.emitted[i].sig]

\* the next signal waiting for delivery in the GUI thread ("" for none); a
\* worker built outside a tab has no slot connected
Pending(wk) ==
    IF wk.tab # "none" /\ wk.delivered < Len(wk.emitted)
    THEN wk.emitted[wk.delivered + 1].sig
    ELSE ""

\* MainWindow.__init__ -> setup_ui
SetupUi ==
    /\ window = "none"
    /\ workers = <<>>
    /\ window' = "open"
    /\ tabs' = [t \in TabsCreated(html_is_available(weasy), md_pdf_is_available(weasy))
                  |-> NewTab]
    /\ UNCHANGED <<fs, weasy, apiVars, workers, nevents>>

\* a user event on an open window's tab
UserEvent(t) ==
    /\ window = "open"
    /\ t \in DOMAIN tabs
    /\ nevents < MaxEvents
    /\ nevents' = nevents + 1

\* a file is dropped on, or browsed into, the tab's file input
HandleFileDropped(t, p) ==
    /\ UserEvent(t)
    /\ tabs[t].file_drop_enabled
    /\ AcceptsDrop(TabAccepted(t), p)
    /\ tabs' = [tabs EXCEPT ![t] =
                   update_convert_button([@ EXCEPT !.input_file = p, !.clear_visible = TRUE])]
    /\ UNCHANGED <<fs, weasy, apiVars, window, workers>>

\* the Clear button
ClearFile(t) ==
    /\ UserEvent(t)
    /\ tabs[t].clear_visible
    /\ tabs' = [tabs EXCEPT ![t] =
                   update_convert_button([@ EXCEPT !.input_file = <<>>, !.clear_visible = FALSE])]
    /\ UNCHANGED <<fs, weasy, apiVars, window, workers>>

\* the Browse button of the output directory; d is what the dialog returns
BrowseOutputDir(t, d) ==
    /\ UserEvent(t)
    /\ tabs[t].browse_dir_enabled
    /\ tabs' = [tabs EXCEPT ![t].output_dir = IF d # <<>> THEN d ELSE @]
    /\ UNCHANGED <<fs, weasy, apiVars, window, workers>>

\* the Convert button: start_conversion of the tab's class; fmt is the format
\* combo's text and keep the keep_html box, read by the handler
StartConversion(t, fmt, keep) ==
    /\ UserEvent(t)
    /\ tabs[t].convert_enabled
    /\ Len(workers) < MaxWorkers
    /\ IF tabs[t].input_file = <<>>
       THEN UNCHANGED <<tabs, workers>>
       ELSE LET ext == IF t = "image" THEN fmt ELSE TabExtension(t)
                output_path ==
                    IF tabs[t].output_dir # <<>>
                    THEN Join(tabs[t].output_dir,
                              DotName(get_filename(tabs[t].input_file), ext))
                    ELSE <<>>
            IN /\ workers' = Append(workers,
                     NewWorker(t, TabFunc(t), TabKwargs(t), tabs[t].input_file, output_path,
                               IF t = "image" THEN fmt ELSE <<>>,
                               IF t = "image" /\ Lower(fmt) \in {<<"jpg">>, <<"jpeg">>}
                               THEN <<QualitySliderValue>> ELSE <<>>,
                               t = "md_pdf" /\ keep, ""))
               /\ tabs' = [tabs EXCEPT ![t] =
                              [set_busy(@, TRUE) EXCEPT !.worker = Len(workers) + 1]]
    /\ UNCHANGED <<fs, weasy, apiVars, window>>

\* ConversionWorker(func, args, kwargs).start() for a callable of the caller's
\* own, in a program that uses the worker class without the main window
StartWorker(raises) ==
    /\ window = "none"
    /\ Len(workers) < MaxWorkers
    /\ workers' = Append(workers,
           NewWorker("none", "callable", {}, <<>>, <<>>, <<>>, <<>>, FALSE, raises))
    /\ UNCHANGED <<fs, weasy, apiVars, window, tabs, nevents>>

\* convert_md_to_pdf from its try block on, in the worker that has run it up
\* to there
ResumeMdToPdf(wk, f, flag) ==
    CallWrapped(World(f), wk.kwargs, convert_md_to_pdf_params,
                IF wk.mid.exc # "" THEN Raise(World(f), wk.mid.exc, wk.mid.detail)
                ELSE MdPdfSteps(World(f), flag, wk.inp, wk.mid.out, wk.keep, wk.mid.hp))

\* run: the call of convert_md_to_pdf up to its try block; the thread can be
\* stopped between this step and the rest of the call
WorkerEnterTry(i) ==
    /\ workers[i].pc = "started"
    /\ ~workers[i].terminated
    /\ workers[i].func = "convert_md_to_pdf"
    /\ LET p == IF BadKeywords(workers[i].kwargs, convert_md_to_pdf_params) # {}
                THEN Raise(World(fs), "TypeError", <<"got an unexpected keyword argument">>)
                ELSE MdPdfPrepare(World(fs), weasy, workers[i].inp, workers[i].out,
                                  workers[i].keep, <<>>)
       IN /\ fs' = p.w.fs
          /\ workers' = [workers EXCEPT ![i].pc = "calling",
                             ![i].mid = IF p.exc # ""
                                        THEN [NoMid EXCEPT !.exc = p.exc, !.detail = p.detail]
                                        ELSE [NoMid EXCEPT !.out = p.val.items[1].s,
                                                           !.hp = p.val.items[2].s]]
    /\ UNCHANGED <<weasy, apiVars, window, tabs, nevents>>

\* run: result = self.converter_func(*self.args, **self.kwargs)
WorkerCall(i) ==
    /\ workers[i].pc = IF workers[i].func = "convert_md_to_pdf" THEN "calling" ELSE "started"
    /\ ~workers[i].terminated
    /\ LET r == IF workers[i].func = "convert_md_to_pdf"
                THEN ResumeMdToPdf(workers[i], fs, weasy)
                ELSE CallConverterFunc(workers[i], fs, weasy)
       IN /\ fs' = r.w.fs
          /\ workers' = [workers EXCEPT ![i].pc = "called", ![i].ret = r.ret,
                                        ![i].exc = r.exc]
    /\ UNCHANGED <<weasy, apiVars, window, tabs, nevents>>

\* run: self.signals.result.emit(result)
WorkerEmitResult(i) ==
    /\ workers[i].pc = "called"
    /\ ~workers[i].terminated
    /\ TerminalSignal(workers[i]) = "result"
    /\ workers' = [workers EXCEPT ![i] =
                      [Emit(@, "result", workers[i].ret) EXCEPT !.pc = "notified"]]
    /\ UNCHANGED <<fs, weasy, apiVars, window, tabs, nevents>>

\* run: except Exception as e: self.signals.error.emit(get_error_message(e))
WorkerEmitError(i) ==
    /\ workers[i].pc = "called"
    /\ ~workers[i].terminated
    /\ TerminalSignal(workers[i]) = "error"
    /\ workers' = [workers EXCEPT ![i] =
                      [Emit(@, "error",
                            StrVal(get_error_message(workers[i].exc, workers[i].detail)))
                       EXCEPT !.pc = "notified"]]
    /\ UNCHANGED <<fs, weasy, apiVars, window, tabs, nevents>>

\* run: finally: self.signals.finished.emit()
WorkerEmitFinished(i) ==
    /\ workers[i].pc = "notified"
    /\ ~workers[i].terminated
    /\ workers' = [workers EXCEPT ![i] =
                      [Emit(@, "finished", NoneVal) EXCEPT !.pc = "finishing"]]
    /\ UNCHANGED <<fs, weasy, apiVars, window, tabs, nevents>>

\* run returns from its finally block and the thread ends
WorkerReturn(i) ==
    /\ workers[i].pc = "finishing"
    /\ ~workers[i].terminated
    /\ workers' = [workers EXCEPT ![i].pc = "done"]
    /\ UNCHANGED <<fs, weasy, apiVars, window, tabs, nevents>>

\* the GUI thread's event loop, which runs while the window is open, delivers
\* the worker's next queued signal to the slot start_conversion connected:
\* result to the tab's conversion_complete, error to its conversion_error,
\* finished to the worker's deleteLater
DeliverSignal(i) ==
    /\ window = "open"
    /\ Pending(workers[i]) # ""
    /\ tabs' = CASE Pending(workers[i]) = "result" ->
                      [tabs EXCEPT ![workers[i].tab] =
                          conversion_complete(@, workers[i].emitted[workers[i].delivered + 1].val,
                                              fs)]
                 [] Pending(workers[i]) = "error" ->
                      [tabs EXCEPT ![workers[i].tab] = conversion_error(@)]
                 [] OTHER -> tabs
    /\ workers' = [workers EXCEPT ![i].delivered = @ + 1,
                                  ![i].deleted = @ \/ Pending(workers[i]) = "finished"]
    /\ UNCHANGED <<fs, weasy, apiVars, window, nevents>>

\* QThread.isRunning(): the thread has been started and run has not returned
isRunning(wk) == wk.pc # "done" /\ ~wk.terminated

\* ConverterTabBase.cleanup: a running self.worker is terminated; a worker
\* that deleteLater has deleted makes isRunning raise RuntimeError, which
\* cleanup swallows
cleanup(tb, ws) ==
    IF tb.worker # 0 /\ ~ws[tb.worker].deleted /\ isRunning(ws[tb.worker])
    THEN [ws EXCEPT ![tb.worker].terminated = TRUE]
    ELSE ws

\* cleanup of the tabs in the order closeEvent lists them
RECURSIVE cleanup_tabs(_, _)
cleanup_tabs(order, ws) ==
    IF order = <<>> THEN ws
    ELSE cleanup_tabs(Tail(order),
                      IF Head(order) \in DOMAIN tabs THEN cleanup(tabs[Head(order)], ws) ELSE ws)

\* MainWindow.closeEvent, a user event as well: every existing tab's cleanup,
\* then the event is accepted and the window closes
CloseEvent ==
    /\ window = "open"
    /\ nevents < MaxEvents
    /\ nevents' = nevents + 1
    /\ window' = "closed"
    /\ workers' = cleanup_tabs(<<"image", "pdf_word", "md_html", "html_pdf", "md_pdf">>, workers)
    /\ UNCHANGED <<fs, weasy, apiVars, tabs>>

\* what the user selects, per tab: a readable file and an unreadable one
TabInputs(t) ==
    CASE t = "image" -> {P("in", "a", "png"), P("in", "c", "png")}
      [] t = "pdf_word" -> {P("in", "a", "pdf"), P("in", "c", "pdf")}
      [] t = "md_html" -> {P("in", "a", "md"), P("in", "c", "md")}
      [] t = "html_pdf" -> {P("in", "a", "html"), P("in", "c", "html")}
      [] t = "md_pdf" -> {P("in", "a", "md"), P("in", "c", "md")}

(***************************************************************************)
(* The converters called directly (a script, the tests)                    *)
(***************************************************************************)
\* the dictionaries handed to save_user_preferences: empty, of strings, of a
\* string and a number, with an int key, with a tuple, with a set
PrefDicts ==
    {<<>>,
     <<[k |-> PyStr(<<"theme">>), x |-> PyStr(<<"dark">>)]>>,
     <<[k |-> PyStr(<<"theme">>), x |-> PyStr(<<"light">>)],
       [k |-> PyStr(<<"size">>), x |-> PyInt(<<"1">>)]>>,
     <<[k |-> PyInt(<<"1">>), x |-> PyStr(<<"dark">>)]>>,
     <<[k |-> PyStr(<<"dims">>), x |-> PyTuple(<<"1", "2">>)]>>,
     <<[k |-> PyStr(<<"theme">>), x |-> PyStr(<<"dark">>)],
       [k |-> PyStr(<<"recent">>), x |-> PySet(<<"a">>)]>>}

\* the preference paths: the default, a file that holds no JSON, a file in a
\* directory that does not exist, and a directory
PrefPaths == {<<>>, <<"blk">>, P("nodir", "prefs", "json"), <<"in">>}

SaveUserPreferences ==
    \E d \in PrefDicts, p \in PrefPaths :
        LET r == save_user_preferences(World(fs), prefs.text, d, p)
        IN /\ call.op = "none"
           /\ fs' = r.w.fs
           /\ prefs' = [text |-> r.text,
                        saved |-> (PrefsPath(p) :> [dict |-> d, exc |-> r.exc]) @@ prefs.saved]
           /\ UNCHANGED <<weasy, call, ncalls, guiVars>>

LoadUserPreferences ==
    \E p \in PrefPaths :
        Returns([NoCall EXCEPT !.op = "load_user_preferences", !.inp = p],
                Plain(load_user_preferences(World(fs), prefs.text, p)))

\* the capability flag is set when html_to_pdf is imported
Init ==
    /\ fs \in {Fs0, Fs1}
    /\ weasy \in BOOLEAN
    /\ call = NoCall
    /\ ncalls = 0
    /\ prefs = NoPrefs
    /\ window = "none"
    /\ tabs = [t \in {} |-> NewTab]
    /\ workers = <<>>
    /\ nevents = 0

Next ==
    \/ ValidateFile
    \/ GetErrorMessage
    \/ GenerateOutputPath
    \/ ConvertImage
    \/ ResizeImage
    \/ ImageBatchConvert
    \/ ConvertPdfToWord
    \/ PdfBatchConvert
    \/ ConvertMdToHtml
    \/ MdHtmlBatchConvert
    \/ ConvertHtmlToPdf
    \/ ConvertHtmlStringToPdf
    \/ HtmlBatchConvert
    \/ ConvertMdToPdf
    \/ MdPdfBatchConvert
    \/ TakeResult

Spec == Init /\ [][Next]_vars

\* the preference functions on their own
NextPrefs ==
    \/ SaveUserPreferences
    \/ LoadUserPreferences
    \/ TakeResult

SpecPrefs == Init /\ [][NextPrefs]_vars

(***************************************************************************)
(* The application: the window, the user's events, the workers' threads    *)
(***************************************************************************)
\* the application starts on the file system without the directory out
InitGui ==
    /\ Init
    /\ fs = Fs0

NextGui ==
    \/ SetupUi
    \/ \E t \in TabNames : \E p \in TabInputs(t) : HandleFileDropped(t, p)
    \/ \E t \in TabNames : ClearFile(t)
    \/ \E t \in TabNames : \E d \in {<<>>, <<"out">>} : BrowseOutputDir(t, d)
    \/ \E t \in TabNames : \E fmt \in {<<"png">>, <<"jpg">>}, keep \in BOOLEAN :
           StartConversion(t, fmt, keep)
    \/ \E raises \in {"", "ValueError"} : StartWorker(raises)
    \/ \E i \in 1..Len(workers) : WorkerCall(i)
    \/ \E i \in 1..Len(workers) : WorkerEmitResult(i)
    \/ \E i \in 1..Len(workers) : WorkerEmitError(i)
    \/ \E i \in 1..Len(workers) : WorkerEmitFinished(i)
    \/ \E i \in 1..Len(workers) : WorkerEnterTry(i)
    \/ \E i \in 1..Len(workers) : WorkerReturn(i)
    \/ \E i \in 1..Len(workers) : DeliverSignal(i)
    \/ CloseEvent

SpecGui == InitGui /\ [][NextGui]_vars

\* a step of worker i's thread, which the operating system schedules
WorkerRun(i) ==
    /\ i \in 1..Len(workers)
    /\ \/ WorkerEnterTry(i)
       \/ WorkerCall(i)
       \/ WorkerEmitResult(i)
       \/ WorkerEmitError(i)
       \/ WorkerEmitFinished(i)
       \/ WorkerReturn(i)

\* the event loop taking worker i's next queued signal
EventLoopDelivers(i) == i \in 1..Len(workers) /\ DeliverSignal(i)

\* the application with its scheduling: a thread that can run does run, and
\* the event loop, while it runs, delivers what is queued
SpecGuiFair ==
    /\ SpecGui
    /\ \A i \in 1..MaxWorkers : WF_vars(WorkerRun(i)) /\ WF_vars(EventLoopDelivers(i))

\* the user works in tab t: every other tab is as it was created
OneTabInUse(t) == \A u \in DOMAIN tabs : u # t => tabs[u] = NewTab

\* the window used one tab at a time
NextOneTab ==
    \/ SetupUi
    \/ \E t \in TabNames : \E p \in TabInputs(t) : OneTabInUse(t) /\ HandleFileDropped(t, p)
    \/ \E t \in TabNames : OneTabInUse(t) /\ ClearFile(t)
    \/ \E t \in TabNames : \E d \in {<<>>, <<"out">>} : OneTabInUse(t) /\ BrowseOutputDir(t, d)
    \/ \E t \in TabNames : \E fmt \in {<<"png">>, <<"jpg">>}, keep \in BOOLEAN :
           OneTabInUse(t) /\ StartConversion(t, fmt, keep)
    \/ \E i \in 1..Len(workers) : WorkerEnterTry(i)
    \/ \E i \in 1..Len(workers) : WorkerCall(i)
    \/ \E i \in 1..Len(workers) : WorkerEmitResult(i)
    \/ \E i \in 1..Len(workers) : WorkerEmitFinished(i)
    \/ \E i \in 1..Len(workers) : WorkerReturn(i)
    \/ \E i \in 1..Len(workers) : DeliverSignal(i)
    \/ CloseEvent

\* ... with the scheduling of the worker threads and of the event loop
SpecOneTabFair ==
    /\ InitGui
    /\ [][NextOneTab]_vars
    /\ \A i \in 1..MaxWorkers : WF_vars(WorkerRun(i)) /\ WF_vars(EventLoopDelivers(i))

(***************************************************************************)
(* Properties.  A property about a public call reads the record of the     *)
(* call that has just returned: its arguments, the file system before      *)
(* (call.pre) and after (fs), its effects and its result.                  *)
(***************************************************************************)
WrappedOps ==
    {"convert_image", "resize_image", "convert_pdf_to_word", "convert_md_to_html",
     "convert_html_to_pdf", "convert_html_string_to_pdf", "convert_md_to_pdf",
     "image_batch_convert", "pdf_batch_convert", "md_html_batch_convert",
     "html_batch_convert", "md_pdf_batch_convert"}

SingleFileOps ==
    {"convert_image", "convert_pdf_to_word", "convert_md_to_html", "convert_html_to_pdf",
     "convert_md_to_pdf"}

BatchOps ==
    {"image_batch_convert", "pdf_batch_convert", "md_html_batch_convert",
     "html_batch_convert", "md_pdf_batch_convert"}

PdfOps ==
    {"convert_html_to_pdf", "convert_html_string_to_pdf", "convert_md_to_pdf",
     "html_batch_convert", "md_pdf_batch_convert"}

\* the input extensions of the converter behind an operation
InputFormatsOf(op) ==
    CASE op \in {"convert_image", "image_batch_convert"} -> SUPPORTED_FORMATS
      [] op \in {"convert_pdf_to_word", "pdf_batch_convert"} -> PDF_INPUT_FORMATS
      [] op \in {"convert_html_to_pdf", "html_batch_convert"} -> HTML_INPUT_FORMATS
      [] OTHER -> MD_INPUT_FORMATS

\* the extension of the target format of a call
TargetExtension(c) ==
    CASE c.op = "convert_image" ->
             IF c.fmt # <<>> THEN LStrip(Lower(c.fmt), DOT) ELSE get_file_extension(c.out)
      [] c.op = "image_batch_convert" -> c.fmt
      [] c.op \in {"convert_pdf_to_word", "pdf_batch_convert"} -> <<"docx">>
      [] c.op \in {"convert_md_to_html", "md_html_batch_convert"} -> <<"html">>
      [] OTHER -> <<"pdf">>

\* the input is an existing regular file with a supported extension, and the
\* library can read it
GoodInput(c, p) ==
    /\ IsFile(c.pre, p)
    /\ InList(get_file_extension(p), InputFormatsOf(c.op))
    /\ LibOn(c.pre, p) = "ok"

\* no regular file stands where the directory d is wanted
Creatable(f, d) == ~IsFile(f, d) /\ \A a \in Ancestors(d) : ~IsFile(f, a)

\* the request is one the claim is about: a good input, the dependency
\* available, a supported target format, and an output path that is left out
\* or names a file of the target format in an existing directory
GoodRequest(c) ==
    /\ GoodInput(c, c.inp)
    /\ c.op \in PdfOps => c.flag
    /\ InList(TargetExtension(c), IF c.op = "convert_image" THEN SUPPORTED_FORMATS
                                  ELSE <<TargetExtension(c)>>)
    /\ \/ c.out = <<>>
       \/ /\ IsDir(c.pre, Dirname(c.out))
          /\ get_file_extension(c.out) = TargetExtension(c)

\* C1: every wrapped public operation returns a (success, payload) pair, lets
\* no exception reach its caller, and whenever success is False the payload
\* is a non-empty error message
C1_WrappedOperationsReturnPairs ==
    call.op \in WrappedOps =>
        /\ call.exc = ""
        /\ IsTuple(call.ret)
        /\ ~call.ret.ok => IsStr(Payload(call.ret)) /\ Payload(call.ret).s # <<>>

\* a library raised an exception without text inside convert_image, and the
\* caller got the generic message
C1_Witness ==
    /\ call.op = "convert_image"
    /\ IsFile(call.pre, call.inp)
    /\ LibOn(call.pre, call.inp) = "Exception"
    /\ call.ret = TupleVal(FALSE, StrVal(<<"An unexpected error occurred.">>))

\* C2: a single-file conversion of an existing regular file with a supported
\* extension, with the PDF dependency available and the library succeeding,
\* returns (True, p), p a str with the target extension, and a file is at p
C2_ValidConversionProducesOutput ==
    (call.op \in SingleFileOps /\ GoodRequest(call)) =>
        /\ IsTuple(call.ret)
        /\ call.ret.ok
        /\ IsStr(Payload(call.ret))
        /\ get_file_extension(Payload(call.ret).s) = TargetExtension(call)
        /\ IsFile(fs, Payload(call.ret).s)

\* the batch could start: the dependency is there and the output directory
\* exists or can be created
BatchCanStart(c) ==
    /\ c.op \in PdfOps => c.flag
    /\ c.out # <<>>
    /\ Creatable(c.pre, c.out)

\* the output paths of the good inputs among c.files[i..], in input order
RECURSIVE ExpectedOutputs(_, _)
ExpectedOutputs(c, i) ==
    IF i > Len(c.files) THEN <<>>
    ELSE (IF GoodInput(c, c.files[i])
          THEN <<StrVal(Join(c.out, DotName(get_filename(c.files[i]), TargetExtension(c))))>>
          ELSE <<>>) \o ExpectedOutputs(c, i + 1)

\* C3: batch_convert with N inputs of which k fail returns (True, L), L being
\* exactly the output paths of the N-k converted inputs in input order, with
\* no entry for a failed input
C3_BatchReturnsConvertedPaths ==
    (call.op \in BatchOps /\ BatchCanStart(call)) =>
        /\ IsTuple(call.ret)
        /\ call.ret.ok
        /\ Payload(call.ret) = ListVal(ExpectedOutputs(call, 1))

\* the inputs a batch took up, in the order it took them
ItemsTaken(log) ==
    LET items == SelectSeq(log, LAMBDA e : e.ev = "item")
    IN [i \in 1..Len(items) |-> items[i].p]

\* C4: a batch takes its inputs one at a time in list order, an item's failure
\* does not keep the following inputs from being attempted, and the batch
\* returns success once the output directory could be created
C4_BatchContinuesAfterFailure ==
    (call.op \in BatchOps /\ BatchCanStart(call)) =>
        /\ IsTuple(call.ret)
        /\ call.ret.ok
        /\ ItemsTaken(call.log) = call.files

\* a batch whose first input does not exist and whose second was converted
C4_Witness ==
    /\ call.op = "pdf_batch_convert"
    /\ call.files = <<P("in", "zz", "pdf"), P("in", "a", "pdf")>>
    /\ call.out = <<"out">>
    /\ call.ret = TupleVal(TRUE, ListVal(<<StrVal(P("out", "a", "docx"))>>))
    /\ IsFile(fs, P("out", "a", "docx"))

\* the allowed extensions as validate_file compares them
AllowedSet(allowed) == {LStrip(Lower(allowed[i]), DOT) : i \in 1..Len(allowed)}

\* what validate_file returned: (False, a non-empty message) if rejected,
\* (True, "") if not
ValidateReturned(c, rejected) ==
    /\ c.exc = ""
    /\ IsTuple(c.ret)
    /\ IsStr(Payload(c.ret))
    /\ IF rejected
       THEN ~c.ret.ok /\ Payload(c.ret).s # <<>>
       ELSE c.ret.ok /\ Payload(c.ret).s = <<>>

\* C5, as the code has it: validate_file never raises and rejects exactly when
\* the path does not exist, is not a regular file, or the list of allowed
\* extensions is not empty and does not hold the file's extension; an empty
\* list allows every extension
C5_ValidateFile ==
    call.op = "validate_file" =>
        ValidateReturned(call,
            \/ ~Exists(call.pre, call.inp)
            \/ ~IsFile(call.pre, call.inp)
            \/ /\ call.allowed # <<>>
               /\ get_file_extension(call.inp) \notin AllowedSet(call.allowed))

\* a file of another extension is accepted under an empty list
C5_Witness ==
    /\ call.op = "validate_file"
    /\ call.inp = P("in", "a", "txt")
    /\ call.allowed = <<>>
    /\ call.ret = TupleVal(TRUE, StrVal(<<>>))

\* C5, as stated: rejected exactly when the path does not exist, is not a
\* regular file, or its extension is not in the allowed set
C5_Original ==
    call.op = "validate_file" =>
        ValidateReturned(call,
            \/ ~Exists(call.pre, call.inp)
            \/ ~IsFile(call.pre, call.inp)
            \/ get_file_extension(call.inp) \notin AllowedSet(call.allowed))

\* the directory generate_output_path is to use
OutputDirOf(c) == IF c.out = <<>> THEN Dirname(c.inp) ELSE c.out

\* C6: generate_output_path returns dir/stem.ext, dir exists when it returns,
\* and creating dir is its only effect; also for an input path without a
\* directory part
C6_GenerateOutputPath ==
    (call.op = "generate_output_path" /\ Creatable(call.pre, OutputDirOf(call))) =>
        /\ call.exc = ""
        /\ call.ret = StrVal(Join(OutputDirOf(call),
                                  DotName(get_filename(call.inp), call.fmt)))
        /\ OutputDirOf(call) # <<>> => IsDir(fs, OutputDirOf(call))
        /\ fs.files = call.pre.files
        /\ fs.bad = call.pre.bad
        /\ call.pre.dirs \subseteq fs.dirs
        /\ fs.dirs \subseteq call.pre.dirs \cup {OutputDirOf(call)} \cup Ancestors(OutputDirOf(call))

\* the PDF path and the path of the kept HTML file of a convert_md_to_pdf call
MdPdfOutputOf(c) ==
    IF c.out # <<>> THEN c.out
    ELSE Join(Dirname(c.inp), DotName(get_filename(c.inp), <<"pdf">>))

MdPdfHtmlOf(c) ==
    IF c.htmlp # <<>> THEN c.htmlp
    ELSE Join(Dirname(MdPdfOutputOf(c)), DotName(get_filename(c.inp), <<"html">>))

\* no HTML file the call created is left
NoHtmlLeft(c) == \A p \in fs.files \ c.pre.files : get_file_extension(p) # <<"html">>

\* the call gets as far as writing the HTML file: the dependency is there,
\* the input is good, and the directories of the PDF and of the HTML file
\* exist or can be created
HtmlStepSucceeds(c) ==
    /\ c.flag
    /\ GoodInput(c, c.inp)
    /\ Dirname(MdPdfOutputOf(c)) # <<>>
    /\ Creatable(c.pre, Dirname(MdPdfOutputOf(c)))
    /\ Dirname(MdPdfHtmlOf(c)) # <<>>
    /\ Creatable(c.pre, Dirname(MdPdfHtmlOf(c)))
    /\ ~IsDir(c.pre, MdPdfHtmlOf(c))

\* C7, as the code has it: after convert_md_to_pdf returns, with success or
\* with failure, no HTML file it created is left when keep_html is off, and
\* when keep_html is on the HTML file is at html_path (or output-dir/stem.html)
\* provided the call got as far as writing it
C7_IntermediateHtml ==
    call.op = "convert_md_to_pdf" =>
        /\ ~call.keep => NoHtmlLeft(call)
        /\ (call.keep /\ HtmlStepSucceeds(call)) => IsFile(fs, MdPdfHtmlOf(call))

\* keep_html on: the call wrote the HTML file, which was not there before
C7_Witness ==
    /\ call.op = "convert_md_to_pdf"
    /\ call.keep
    /\ HtmlStepSucceeds(call)
    /\ MdPdfHtmlOf(call) \notin call.pre.files
    /\ IsFile(fs, MdPdfHtmlOf(call))

\* C7, as stated: with keep_html on the HTML file is on disk after every call
C7_Original ==
    call.op = "convert_md_to_pdf" =>
        /\ ~call.keep => NoHtmlLeft(call)
        /\ call.keep => IsFile(fs, MdPdfHtmlOf(call))

\* C8: without the PDF dependency the five PDF operations fail with the
\* unavailable message before anything else: the file system is as before and
\* nothing was validated, created, written or handed to a library
C8_UnavailableFailsFirst ==
    (call.op \in PdfOps /\ ~call.flag) =>
        /\ IsTuple(call.ret)
        /\ ~call.ret.ok
        /\ IsStr(Payload(call.ret))
        /\ Payload(call.ret).s # <<>>
        /\ <<Payload(call.ret).s[Len(Payload(call.ret).s)]>>
               \in {UnavailableText, MdPdfUnavailableText}
        /\ fs = call.pre
        /\ \A i \in 1..Len(call.log) : call.log[i].ev = "log_error"

\* a Markdown-to-PDF batch of two files without the dependency
C8_Witness ==
    /\ call.op = "md_pdf_batch_convert"
    /\ ~call.flag
    /\ Len(call.files) = 2
    /\ IsTuple(call.ret)
    /\ ~call.ret.ok

\* what C9 says of a state
C9_State ==
    /\ md_pdf_is_available(weasy) = html_is_available(weasy)
    /\ window = "open" =>
           /\ "html_pdf" \in DOMAIN tabs <=> html_is_available(weasy)
           /\ "md_pdf" \in DOMAIN tabs <=> md_pdf_is_available(weasy)
    /\ \A i \in 1..Len(workers) :
           /\ workers[i].func = "convert_html_to_pdf" => html_is_available(weasy)
           /\ workers[i].func = "convert_md_to_pdf" => md_pdf_is_available(weasy)

\* C9: no step changes the capability flag; the two is_available() agree in
\* every state; the window has the HTML-to-PDF tab (the Markdown-to-PDF tab)
\* if and only if the flag is true; and no worker runs an unavailable converter
C9_CapabilityFlag == [](C9_State) /\ [][weasy' = weasy]_vars

\* without the dependency: the window is open with its three tabs and a
\* conversion started from one of them has run
C9_Witness ==
    /\ ~weasy
    /\ window = "open"
    /\ DOMAIN tabs = {"image", "pdf_word", "md_html"}
    /\ \E i \in 1..Len(workers) : workers[i].tab = "md_html" /\ workers[i].pc = "done"

IsPrefix(s, t) == Len(s) <= Len(t) /\ s = SubSeq(t, 1, Len(s))

\* C10: a run emits result if the function returned and error if it raised,
\* never both and, once it is over, never neither; finished is emitted once,
\* after that notification
C10_WorkerNotifications ==
    \A i \in 1..Len(workers) :
        /\ \/ IsPrefix(Signals(workers[i]), <<"result", "finished">>)
           \/ IsPrefix(Signals(workers[i]), <<"error", "finished">>)
        /\ Signals(workers[i]) # <<>> =>
               /\ workers[i].pc \in {"notified", "finishing", "done"}
               /\ Signals(workers[i])[1] = "result" <=> workers[i].exc = ""
        /\ workers[i].pc = "done" => Len(Signals(workers[i])) = 2

\* a run whose function raised is over
C10_Witness ==
    \E i \in 1..Len(workers) :
        /\ workers[i].pc = "done"
        /\ workers[i].exc # ""
        /\ Signals(workers[i]) = <<"error", "finished">>

\* finished has been emitted and, for a worker of a tab, has reached its slot
FinishedDelivered(wk) ==
    \E k \in 1..Len(wk.emitted) :
        /\ wk.emitted[k].sig = "finished"
        /\ wk.tab # "none" => wk.delivered >= k

\* C11: for every worker that has been started, the finished notification is
\* eventually delivered, whether the function returns, raises, or the owning
\* tab's cleanup runs while the worker is in flight
C11_FinishedEventuallyDelivered ==
    \A i \in 1..MaxWorkers :
        (i <= Len(workers)) ~> (i <= Len(workers) /\ FinishedDelivered(workers[i]))

\* the workers of tab t whose result or error has not been delivered
Undelivered(t) == {i \in 1..Len(workers) : workers[i].tab = t /\ workers[i].delivered = 0}

\* C12: whatever the user does, a tab has at most one worker whose result or
\* error has not been delivered: no second worker is started before that
C12_OneWorkerPerTab == \A t \in TabNames : Cardinality(Undelivered(t)) <= 1

\* a tab's second worker has been started, after the first one's result
\* arrived
C12_Witness ==
    \E i, j \in 1..Len(workers) :
        /\ i < j
        /\ workers[i].tab = workers[j].tab
        /\ workers[i].tab # "none"
        /\ workers[i].delivered >= 1
        /\ workers[j].pc = "started"

\* the conversion of worker wk is in flight: started and not yet run
InFlight(wk) == wk.tab # "none" /\ wk.pc = "started" /\ ~wk.terminated

\* what the conversion of wk does to files when it runs from the present state
Footprint(wk) == CallConverterFunc(wk, fs, weasy).w.log

\* the files a conversion reads, and those it writes or deletes
FilesRead(log) == {log[k].p : k \in {n \in 1..Len(log) : log[n].ev \in {"validate", "lib"}}}
FilesChanged(log) ==
    {log[k].p : k \in {n \in 1..Len(log) : log[n].ev \in {"write", "tmpfile", "unlink"}}}

ConversionFailed(wk) ==
    \/ wk.exc # ""
    \/ /\ IsTuple(wk.ret)
       /\ \/ ~wk.ret.ok
          \/ IsTuple(Payload(wk.ret)) /\ ~Payload(wk.ret).ok

\* C14: once the result or error of a tab's worker has arrived and its
\* conversion failed, the tab has handled it as an error: the status label
\* shows an error, the error box was shown, and the status is not
\* "Conversion complete"
C14_FailureShownAsError ==
    \A t \in DOMAIN tabs :
        (/\ tabs[t].worker # 0
         /\ workers[tabs[t].worker].delivered >= 1
         /\ ConversionFailed(workers[tabs[t].worker])) =>
            /\ tabs[t].is_error
            /\ tabs[t].status = "Error"
            /\ tabs[t].last_modal = "critical"

\* a dimension is given: not None and not 0
Given(d) == d # <<>> /\ d[1] # 0

\* the sizes a call handed to img.resize, in order
ResizedTo(c) ==
    LET r == SelectSeq(c.log, LAMBDA e : e.ev = "resize")
    IN [k \in 1..Len(r) |-> r[k].n]

\* resize_image returned success and its output is on disk
Resized(c) ==
    /\ c.op = "resize_image"
    /\ IsTuple(c.ret)
    /\ c.ret.ok
    /\ IsFile(fs, c.out)

\* C15: with maintain_aspect_ratio off, the output of resize_image is exactly
\* width by height, a dimension that is not given keeping its original value
C15_ExactDimensions ==
    (Resized(call) /\ ~call.keep) =>
        ResizedTo(call) = << <<IF Given(call.wd) THEN call.wd[1] ELSE call.size[1],
                               IF Given(call.ht) THEN call.ht[1] ELSE call.size[2]>> >>

\* a 4 by 2 image resized to 3 by 3, and a 2 by 7 image given only a height
C15_Witness ==
    /\ Resized(call)
    /\ ~call.keep
    /\ \/ call.size = <<4, 2>> /\ call.wd = <<3>> /\ call.ht = <<3>>
       \/ call.size = <<2, 7>> /\ ~Given(call.wd) /\ call.ht = <<3>>
    /\ ResizedTo(call) \in {<< <<3, 3>> >>, << <<2, 3>> >>}

\* C16: with maintain_aspect_ratio on, only width given: width by
\* floor(original_height * width / original_width), and symmetrically for
\* height; both given: scaled by the smaller ratio, so never more than width by
\* height, and exactly width by height when the aspect ratios are equal
C16_ScaledDimensions ==
    (Resized(call) /\ call.keep) =>
        LET w == call.wd[1]
            h == call.ht[1]
            ow == call.size[1]
            oh == call.size[2]
        IN CASE Given(call.wd) /\ ~Given(call.ht) ->
                    ResizedTo(call) = << <<w, (oh * w) \div ow>> >>
             [] ~Given(call.wd) /\ Given(call.ht) ->
                    ResizedTo(call) = << <<(ow * h) \div oh, h>> >>
             [] OTHER ->
                    /\ ResizedTo(call) =
                           << IF w * oh <= h * ow THEN <<w, (oh * w) \div ow>>
                                                  ELSE <<(ow * h) \div oh, h>> >>
                    /\ ResizedTo(call)[1][1] <= w
                    /\ ResizedTo(call)[1][2] <= h
                    /\ w * oh = h * ow => ResizedTo(call) = << <<w, h>> >>

\* the format of the file a convert_image call wrote, <<>> if it wrote none
WrittenFormat(c) ==
    LET f == SelectSeq(c.log, LAMBDA e : e.ev = "format")
    IN IF f = <<>> THEN <<>> ELSE f[Len(f)].n

\* the target format C17 describes: output_format when given, otherwise the
\* extension of output_path
TargetFormat(c) ==
    IF c.fmt # <<>> THEN LStrip(Lower(c.fmt), DOT) ELSE get_file_extension(c.out)

\* C17: convert_image on a good input takes the target format from
\* output_format when given, otherwise from output_path's extension, and fails
\* when neither is given; an unsupported target format gives failure with a
\* message naming it and no file written; with output_path omitted the output
\* is written in the input's directory as stem.format
C17_ImageTargetFormat ==
    (call.op = "convert_image" /\ GoodInput(call, call.inp)) =>
        LET msg == Payload(call.ret).s
            fmt == TargetFormat(call)
        IN /\ (call.fmt = <<>> /\ call.out = <<>>) => ~call.ret.ok
           /\ ((call.fmt # <<>> \/ call.out # <<>>) /\ ~InList(fmt, SUPPORTED_FORMATS)) =>
                  /\ ~call.ret.ok
                  /\ Len(msg) >= 3 + Len(fmt)
                  /\ msg[3] = "Unsupported output format: "
                  /\ SubSeq(msg, 4, 3 + Len(fmt)) = fmt
                  /\ fs = call.pre
           /\ (call.ret.ok /\ InList(fmt, SUPPORTED_FORMATS)) => WrittenFormat(call) = fmt
           /\ (call.out = <<>> /\ InList(fmt, SUPPORTED_FORMATS)) =>
                  /\ call.ret.ok
                  /\ Payload(call.ret).s =
                         Join(Dirname(call.inp), DotName(get_filename(call.inp), fmt))
                  /\ IsFile(fs, Payload(call.ret).s)
                  /\ WrittenFormat(call) = fmt

\* the call failed and its message starts with the template of exception type t
FailedAs(c, t) ==
    /\ IsTuple(c.ret)
    /\ ~c.ret.ok
    /\ IsStr(Payload(c.ret))
    /\ Payload(c.ret).s # <<>>
    /\ Payload(c.ret).s[1] = TemplateOf(t)

\* C18: a single-file conversion of a path that does not exist fails as a
\* FileNotFoundError, with the file-not-found message; one of an existing file
\* with an unsupported extension fails as a ValueError; the two templates differ
C18_FailureKinds ==
    (call.op \in SingleFileOps /\ (call.op \in PdfOps => call.flag)) =>
        /\ ~Exists(call.pre, call.inp) => FailedAs(call, "FileNotFoundError")
        /\ (/\ IsFile(call.pre, call.inp)
            /\ ~InList(get_file_extension(call.inp), InputFormatsOf(call.op))) =>
               FailedAs(call, "ValueError")
        /\ TemplateOf("FileNotFoundError") # TemplateOf("ValueError")

\* the entries of the table whose class is the exception's class or an
\* ancestor of it, and the most specific of them
MatchingEntries(t) ==
    {i \in 1..Len(ERROR_MESSAGES) : IsInstance(t, ERROR_MESSAGES[i][1])}
MostSpecificEntry(t) ==
    CHOOSE i \in MatchingEntries(t) :
        \A j \in MatchingEntries(t) : IsInstance(ERROR_MESSAGES[i][1], ERROR_MESSAGES[j][1])

\* C19: get_error_message uses the template of the most specific table entry
\* that is the exception's class or an ancestor of it, the generic template
\* when only Exception (or nothing) matches, and appends " Details: <text>"
\* exactly when the exception's text is not empty
C19_GetErrorMessage ==
    call.op = "get_error_message" =>
        LET template ==
                IF MatchingEntries(call.etype) = {} THEN "An unexpected error occurred."
                ELSE ERROR_MESSAGES[MostSpecificEntry(call.etype)][2]
        IN /\ call.exc = ""
           /\ call.ret =
                  StrVal(<<template>> \o (IF call.detail # <<>>
                                          THEN <<" Details: ">> \o call.detail ELSE <<>>))
           /\ (\A i \in MatchingEntries(call.etype) : ERROR_MESSAGES[i][1] = "Exception") =>
                  call.ret.s[1] = "An unexpected error occurred."

\* an exception of a subclass of FileNotFoundError, with text, got the
\* file-not-found template and its details
C19_Witness ==
    /\ call.op = "get_error_message"
    /\ call.etype = "MissingInputError"
    /\ call.ret = StrVal(<<"The specified file could not be found.", " Details: ",
                           "no such file">>)

\* the single-file converters that take an input file, and the extensions
\* each validates its input against
ValidatingOps == SingleFileOps \cup {"resize_image"}
FormatsValidated(op) == IF op = "resize_image" THEN SUPPORTED_FORMATS ELSE InputFormatsOf(op)

\* what a call did to or with files, in order, validation included
FileEffects(c) ==
    SelectSeq(c.log, LAMBDA e : e.ev \in {"validate", "makedirs", "tmpfile", "lib", "resize",
                                          "write", "unlink"})

\* C20: in the single-file converters input validation comes before any
\* output-path generation, directory creation, temporary file or library
\* call, and when validation fails the call returns failure and leaves the
\* file system as it was
C20_ValidationFirst ==
    call.op \in ValidatingOps =>
        /\ FileEffects(call) # <<>> =>
               FileEffects(call)[1] = [ev |-> "validate", p |-> call.inp, n |-> <<>>]
        /\ ~(/\ IsFile(call.pre, call.inp)
             /\ InList(get_file_extension(call.inp), FormatsValidated(call.op))) =>
               /\ IsTuple(call.ret)
               /\ ~call.ret.ok
               /\ fs = call.pre
               /\ Len(FileEffects(call)) <= 1

\* a conversion of a missing file into a directory that does not exist yet:
\* validated, refused, nothing created
C20_Witness ==
    /\ call.op = "convert_pdf_to_word"
    /\ call.inp = P("in", "zz", "pdf")
    /\ call.out = P("out", "x", "docx")
    /\ ~IsDir(call.pre, <<"out">>)
    /\ Len(FileEffects(call)) = 1
    /\ ~call.ret.ok
    /\ fs = call.pre

\* the converter function of tab worker i has returned and its result is on
\* its way to the tab
ResultOnItsWay(i) ==
    /\ i <= Len(workers)
    /\ workers[i].tab # "none"
    /\ workers[i].pc # "started"
    /\ workers[i].delivered = 0

\* the result of tab worker i has reached conversion_complete
ResultArrived(i) ==
    /\ i <= Len(workers)
    /\ workers[i].tab # "none"
    /\ workers[i].delivered >= 1

\* the tab is out of the busy state: progress hidden, file input and output
\* directory controls enabled, Convert enabled exactly when a file is selected
LeftBusy(tb) ==
    /\ ~tb.progress_visible
    /\ tb.file_drop_enabled
    /\ tb.browse_dir_enabled
    /\ tb.convert_enabled <=> tb.input_file # <<>>

\* C21, as the code has it: once the converter function of a tab's worker has
\* returned, the tab eventually leaves the busy state, unless the window is
\* closed first
C21_TabLeavesBusy ==
    \A i \in 1..MaxWorkers :
        ResultOnItsWay(i) ~>
            \/ window = "closed"
            \/ ResultArrived(i) /\ LeftBusy(tabs[workers[i].tab])

\* the result has arrived in the open window and the tab, whose file was
\* cleared during the conversion, is out of the busy state with Convert disabled
C21_Witness ==
    /\ window = "open"
    /\ \E i \in 1..Len(workers) :
           /\ workers[i].tab # "none"
           /\ workers[i].delivered >= 1
           /\ tabs[workers[i].tab].worker = i
           /\ tabs[workers[i].tab].input_file = <<>>
           /\ ~tabs[workers[i].tab].convert_enabled
           /\ LeftBusy(tabs[workers[i].tab])

\* C21, as stated: once the converter function has returned, the tab
\* eventually leaves the busy state
C21_Original ==
    \A i \in 1..MaxWorkers :
        ResultOnItsWay(i) ~> (ResultArrived(i) /\ LeftBusy(tabs[workers[i].tab]))

\* load_user_preferences has just returned for a path on which a dictionary
\* was saved before
LoadedAfterSave ==
    /\ call.op = "load_user_preferences"
    /\ PrefsPath(call.inp) \in DOMAIN prefs.saved

\* C22: load_user_preferences returns the dictionary last saved on its path,
\* returns the empty dictionary for a missing or unreadable file, and neither
\* it nor save_user_preferences raises
C22_PreferencesStoredWholesale ==
    /\ \A p \in DOMAIN prefs.saved : prefs.saved[p].exc = ""
    /\ call.op = "load_user_preferences" =>
           /\ call.exc = ""
           /\ call.ret.t = "dict"
           /\ LoadedAfterSave =>
                  DictEq(call.ret.items, prefs.saved[PrefsPath(call.inp)].dict)
           /\ ~LoadedAfterSave /\ (~IsFile(call.pre, PrefsPath(call.inp))
                                    \/ ~TextOf(prefs, PrefsPath(call.inp)).valid) =>
                  call.ret.items = <<>>

\* the events of call c at which its two steps are called
MdStepCalls(c) ==
    {i \in 1..Len(c.log) : c.log[i] = Ev("step", <<"convert_md_to_html">>)}
PdfStepCalls(c) ==
    {i \in 1..Len(c.log) : c.log[i] = Ev("step", <<"convert_html_to_pdf">>)}

\* a step is wrapped: when it fails it logs its exception and returns
\* (False, message)
MdStepFailed(c) ==
    \E i \in MdStepCalls(c), j \in PdfStepCalls(c) : \E k \in i..j : c.log[k].ev = "log_error"
PdfStepFailed(c) ==
    \E j \in PdfStepCalls(c) : \E k \in j..Len(c.log) : c.log[k].ev = "log_error"

\* C23: convert_md_to_pdf calls the HTML-to-PDF step only after the
\* Markdown-to-HTML step has reported success, reports failure whenever one
\* of the two steps reported failure, and never reports success while the
\* PDF step reported failure
C23_StepsInSequence ==
    call.op = "convert_md_to_pdf" /\ MdStepCalls(call) # {} =>
        /\ PdfStepCalls(call) # {} => ~MdStepFailed(call)
        /\ MdStepFailed(call) \/ PdfStepFailed(call) => ~call.ret.ok
        /\ PdfStepFailed(call) => ~call.ret.ok

\* the tab is busy: set_busy(True) was the last set_busy
Busy(tb) == tb.progress_visible

\* C24: in every reachable state the Convert button of a tab is enabled if and
\* only if an input file is selected and the tab is not busy
C24_ConvertButton ==
    \A t \in DOMAIN tabs :
        tabs[t].convert_enabled <=> (tabs[t].input_file # <<>> /\ ~Busy(tabs[t]))

\* in one tab Convert was clicked and the file cleared during the conversion:
\* the tab is busy and the button disabled; in another tab a file is selected
\* and the button enabled
C24_Witness ==
    \E t, u \in DOMAIN tabs :
        /\ Busy(tabs[t])
        /\ tabs[t].input_file = <<>>
        /\ ~tabs[t].convert_enabled
        /\ ~Busy(tabs[u])
        /\ tabs[u].input_file # <<>>
        /\ tabs[u].convert_enabled

\* C25: a worker is destroyed (deleteLater, triggered by the delivery of its
\* finished notification, has taken effect) only when its thread has left run
C25_DeletedAfterRun ==
    \A i \in 1..Len(workers) : workers[i].deleted => workers[i].pc = "done"

\* the window was closed while a Markdown-to-PDF conversion with keep_html
\* off was in flight: cleanup has stopped its worker
ClosedInFlight(wk) ==
    /\ window = "closed"
    /\ wk.func = "convert_md_to_pdf"
    /\ ~wk.keep
    /\ wk.terminated

\* C26: once closeEvent has completed after closing the window during a
\* Markdown-to-PDF conversion with keep_html off, no worker of a tab is still
\* running and no temporary HTML file of that conversion is left on disk
C26_CloseLeavesNothing ==
    \A i \in 1..Len(workers) :
        ClosedInFlight(workers[i]) =>
            /\ \A j \in 1..Len(workers) :
                   workers[j].tab # "none" => ~isRunning(workers[j])
            /\ workers[i].mid.hp # <<>> => ~Exists(fs, workers[i].mid.hp)

\* the paths call c handed to a library to be written, and its input paths
PathsWritten(c) == {c.log[k].p : k \in {n \in 1..Len(c.log) : c.log[n].ev = "write"}}
InputPaths(c) ==
    IF c.op \in BatchOps THEN {c.files[k] : k \in 1..Len(c.files)} ELSE {c.inp}

\* C27: no conversion writes to its own input file, whatever the output path,
\* output directory and output format
C27_InputNotOverwritten ==
    call.op \in SingleFileOps \cup BatchOps \cup {"resize_image"} =>
        PathsWritten(call) \cap InputPaths(call) = {}

\* the input of the batch that event n of call c belongs to: the number of
\* items taken up to there
ItemAt(c, n) == Cardinality({k \in 1..n : c.log[k].ev = "item"})

\* the output files written for input i of the batch
OutputsOfItem(c, i) ==
    {c.log[n].p : n \in {k \in 1..Len(c.log) :
                             /\ c.log[k].ev = "write"
                             /\ get_file_extension(c.log[k].p) = TargetExtension(c)
                             /\ ItemAt(c, k) = i}}

\* C28: within one batch_convert call, distinct input paths are written to
\* distinct output paths
C28_DistinctOutputs ==
    call.op \in BatchOps =>
        \A i, j \in 1..Len(call.files) :
            call.files[i] # call.files[j] =>
                OutputsOfItem(call, i) \cap OutputsOfItem(call, j) = {}

\* the save options of a convert_image call that got as far as saving: the
\* output format and the quality handed to the library (<<>>: none)
SaveEvents(c) == {k \in 1..Len(c.log) : c.log[k].ev = "quality"}

PositiveRequest(c) ==
    /\ c.wd # <<>> \/ c.ht # <<>>
    /\ c.wd # <<>> => c.wd[1] >= 1
    /\ c.ht # <<>> => c.ht[1] >= 1

\* C30: for an image of positive dimensions and positive requested width
\* and/or height, both dimensions resize_image computes are at least 1, with
\* the aspect ratio kept or not
C30_DimensionsPositive ==
    call.op = "resize_image" /\ PositiveRequest(call) /\ call.size[1] >= 1 /\ call.size[2] >= 1 =>
        \A k \in 1..Len(call.log) :
            call.log[k].ev = "resize" => call.log[k].n[1] >= 1 /\ call.log[k].n[2] >= 1

====
